---- MODULE Spec2Model ----
(***************************************************************************)
(* cronos daemon data plane: the engine (ingest, linker, repository,       *)
(* context graph, collector map) behind handle_message, and the server's   *)
(* per-connection request loop.                                            *)
(***************************************************************************)
EXTENDS Integers, Naturals, Sequences, FiniteSets, TLC

(***************************************************************************)
(* Bounds of the model.                                                    *)
(***************************************************************************)
\* Total number of frames the daemon reads over all connections.
MaxFrames == 2
\* Width in bits of the signed integer standing in for Timestamp (i64).
TsBits == 3
\* daemon.dedup.window_ms of the configuration the engine was opened with.
DedupWindow == 2
\* Largest event id a client puts into an event.
MaxEventId == 2
\* Frames the daemon reads when it serves a single connection.
SeqFrames == 2
\* Frames the daemon reads from a collector that reports one file of one
\* project over and over.
ChainLen == 7
\* Frames the daemon reads from the application monitor.
AggFrames == 3
\* Runs of the session aggregator.
MaxRuns == 2
\* daemon.aggregator.session_gap_ms the aggregator was made with.
SessionGap == 2
\* Milliseconds in a second (1000 in make_session), scaled to the width of the
\* timestamps.
MsPerSec == 2
\* Frames the daemon reads while the history of the frames is kept.
OrderFrames == 3
\* Frames the daemon reads in a build of either profile.
PanicFrames == 3
\* Width of the u32 length prefix of a frame, and the exponent of
\* MAX_FRAME_SIZE (32 and 24 in frame.rs), scaled.
LenBits == 4
MaxFrameBits == 2
\* Frames the daemon reads while the history of the handshakes is kept.
CollFrames == 4
\* Nodes and edges of the graphs related() is run on, and its largest depth.
BfsNodes == 3
BfsEdges == 3
MaxDepth == 2
\* Runs of run_migrations on one database, and how many versions newer than
\* CURRENT_VERSION the database it is first run on may record.
MaxMigRuns == 2
NewerVersions == 1
\* Calls of run_session by a collector's main, events its channel hands it,
\* and paths of one filesystem notification.
MaxConnects == 2
MaxEvents == 2
MaxPaths == 2
\* Capacity of the channel between a collector's producer and its session
\* (4096 in both collectors), scaled.
ChannelCap == 1
\* Frames the daemon reads while events of every pair of kinds are linked.
LinkFrames == 1
\* Frames the daemon reads while the collectors' counters are compared with
\* the events table.
CountFrames == 3
\* Events build_sessions is called on.
BuildLen == 3
\* Frames the daemon reads from two peers that report one file.
RaceFrames == 2
\* Frames the daemon reads while a collector comes and goes.
CloseFrames == 3
\* Frames the daemon reads while the aggregator task runs for ever.
PeriodicFrames == 2
\* Frames the daemon reads while one file is reported at any timestamps.
DedupFrames == 3

(***************************************************************************)
(* Plain helpers.                                                          *)
(***************************************************************************)
\* The connections the accept loop hands to handlers.
Conns == {1, 2}

Pow2(n) == 2^n

Range(s) == {s[i] : i \in DOMAIN s}

Min(a, b) == IF a <= b THEN a ELSE b

Abs(x) == IF x < 0 THEN -x ELSE x

(***************************************************************************)
(* Timestamp = i64 (cronos-model).  The model keeps the two's complement   *)
(* behaviour on a TsBits-wide integer, with the release profile's wrapping *)
(* arithmetic (the dev profile panics where this one wraps).               *)
(***************************************************************************)
TsMin == -Pow2(TsBits - 1)

TsMax == Pow2(TsBits - 1) - 1

\* Timestamps a client sends: the two extremes, 0 and the values at the edge
\* of the dedup window.
Timestamps == {TsMin, 0, DedupWindow - 1, DedupWindow, TsMax}

\* a - b on Timestamp with wrap-around (the release build's i64 subtraction).
WrappingSub(a, b) == ((a - b + Pow2(TsBits - 1)) % Pow2(TsBits)) - Pow2(TsBits - 1)

\* i64::unsigned_abs: |x| as an unsigned value (|TsMin| is representable).
UnsignedAbs(x) == IF x < 0 THEN -x ELSE x

(***************************************************************************)
(* Edge strength is an f32.  A strength is held as an integer number of    *)
(* 2^-24 (the f32 spacing on [0.5, 1)); the REAL column of the edges table *)
(* is an f64, held as an integer number of 2^-27.                          *)
(***************************************************************************)
\* Round n/d to the nearest integer, ties to even (IEEE 754 default).
RoundHalfEven(n, d) ==
    LET q == n \div d
        r == n % d
    IN  IF 2 * r < d THEN q
        ELSE IF 2 * r > d THEN q + 1
        ELSE IF q % 2 = 0 THEN q ELSE q + 1

\* The f32 literal 0.1 = 13421773 * 2^-27.
F32Tenth == 13421773

\* The f32 literal 0.5.
F32Half == 8388608

\* The f32 literal 1.0.
F32One == 16777216

\* f32 addition a + 0.1 for a in [0.5, 1.0]: exact sum in units of 2^-27,
\* rounded to the f32 grid (2^-24 below 1.0, 2^-23 from 1.0 on).
F32AddTenth(a) ==
    LET s == 8 * a + F32Tenth
    IN  IF s < 8 * F32One THEN RoundHalfEven(s, 8)
        ELSE 2 * RoundHalfEven(s, 16)

\* The addition without the cap at 1.0.
Reinforce_Uncapped(strength) == F32AddTenth(strength)

\* (existing.strength + 0.1).min(1.0)
Reinforce(strength) == Min(F32AddTenth(strength), F32One)

\* f32 -> f64 when the edge is bound to the REAL column (exact widening).
F32ToF64(x) == 8 * x

\* `r.strength as f32` in edge_from_row (rounds to the nearest f32).
F64ToF32(y) == RoundHalfEven(y, 8)

(***************************************************************************)
(* Input domains.                                                          *)
(***************************************************************************)
\* CollectorSource values, by their wire tag.
Sources == {"filesystem", "browser"}

\* format!("{:?}", source): the Debug rendering used as dedup and counter key.
DebugFmt(source) ==
    CASE source = "filesystem" -> "Filesystem"
      [] source = "browser" -> "Browser"
      [] source = "app_monitor" -> "AppMonitor"
      [] OTHER -> "Custom"

EntityRef(kind, identity) == [kind |-> kind, identity |-> identity]

\* Subjects of the events clients send (one with an empty identity).
Subjects == {EntityRef("file", "a"), EntityRef("file", "")}

\* Context lists of the events clients send.
Contexts ==
    { <<>>,
      <<EntityRef("project", "p")>>,
      <<EntityRef("project", "p"), EntityRef("project", "p")>> }

EventIds == 1..MaxEventId

Events ==
    [id : EventIds, timestamp : Timestamps, source : Sources,
     subject : Subjects, context : Contexts]

\* Events of the peers of the concurrent daemon.
ConcEvents ==
    {e \in Events :
        /\ e.timestamp \in {0, DedupWindow}
        /\ e.source = "filesystem"
        /\ e.subject.identity = "" => (e.id = 1 /\ e.timestamp = 0 /\ e.context = <<>>)}

(***************************************************************************)
(* Repository (storage/repo.rs): the tables as sets of rows.               *)
(***************************************************************************)
\* EntityId::new() / EdgeId::new(): a ULID no existing row carries.  Rows are
\* never deleted, so the row count + 1 is fresh.
NewId(rows) == Cardinality(rows) + 1

\* An upsert that replaces the whole row of a known id.
InsertEntity_ReplacesRow(ents, e) == {r \in ents : r.id # e.id} \cup {e}

\* Repository::insert_entity: INSERT ... ON CONFLICT(id) DO UPDATE SET
\* last_seen, name (the conflicting row keeps kind and first_seen).
InsertEntity(ents, e) ==
    IF \E r \in ents : r.id = e.id
    THEN { IF r.id = e.id
           THEN [r EXCEPT !.last_seen = e.last_seen, !.name = e.name]
           ELSE r : r \in ents }
    ELSE ents \cup {e}

\* Rows matching (kind, name), as the SELECT returns them.
EntityMatches(ents, kind, name) == {r \in ents : r.kind = kind /\ r.name = name}

\* Repository::find_entity_by_kind_and_name: rows.next(), the first matching
\* row in rowid (insertion) order; ids grow with insertion here.
FindEntityByKindAndName(ents, kind, name) ==
    LET m == EntityMatches(ents, kind, name)
    IN  CHOOSE r \in m : \A q \in m : r.id <= q.id

\* Repository::insert_edge: INSERT ... ON CONFLICT(id) DO UPDATE SET strength,
\* last_reinforced.  The strength column is REAL (f64).
InsertEdge(eds, e) ==
    LET row == [e EXCEPT !.strength = F32ToF64(e.strength)]
    IN  IF \E r \in eds : r.id = e.id
        THEN { IF r.id = e.id
               THEN [r EXCEPT !.strength = row.strength,
                              !.last_reinforced = row.last_reinforced]
               ELSE r : r \in eds }
        ELSE eds \cup {row}

EdgeMatches(eds, from, to, relation) ==
    {r \in eds : r.from = from /\ r.to = to /\ r.relation = relation}

\* edge_from_row: the row as an Edge (strength back to f32).
EdgeFromRow(r) == [r EXCEPT !.strength = F64ToF32(r.strength)]

\* Repository::find_edge: the first matching row.
FindEdge(eds, from, to, relation) ==
    LET m == EdgeMatches(eds, from, to, relation)
    IN  EdgeFromRow(CHOOSE r \in m : \A q \in m : r.id <= q.id)

\* The event_context rows insert_event writes before a PRIMARY KEY
\* (event_id, entity_id) conflict stops it: rows for context_ids[1..n].
RECURSIVE CtxRowsUpTo(_, _, _, _)
CtxRowsUpTo(ctx_rows, event_id, context_ids, n) ==
    IF n = 0 THEN ctx_rows
    ELSE CtxRowsUpTo(ctx_rows, event_id, context_ids, n - 1)
           \cup {<<event_id, context_ids[n]>>}

\* Index of the first context id whose row already exists when its turn comes
\* (0 when every insert succeeds).
FirstCtxConflict(ctx_rows, event_id, context_ids) ==
    LET bad == { i \in 1..Len(context_ids) :
                   <<event_id, context_ids[i]>> \in
                       CtxRowsUpTo(ctx_rows, event_id, context_ids, i - 1) }
    IN  IF bad = {} THEN 0 ELSE CHOOSE i \in bad : \A j \in bad : i <= j

\* Repository::insert_event.  Each statement commits on its own (there is no
\* transaction): a PRIMARY KEY conflict on events.id fails before any row is
\* written; a conflict on event_context leaves the event row and the context
\* rows written so far.
InsertEvent(evs, ctx_rows, event, subject_id, context_ids) ==
    IF \E r \in evs : r.id = event.id
    THEN [ok |-> FALSE, events |-> evs, event_context |-> ctx_rows]
    ELSE LET row == [id |-> event.id, timestamp |-> event.timestamp,
                     source |-> event.source, subject_id |-> subject_id]
             k == FirstCtxConflict(ctx_rows, event.id, context_ids)
         IN  IF k = 0
             THEN [ok |-> TRUE, events |-> evs \cup {row},
                   event_context |->
                       CtxRowsUpTo(ctx_rows, event.id, context_ids, Len(context_ids))]
             ELSE [ok |-> FALSE, events |-> evs \cup {row},
                   event_context |->
                       CtxRowsUpTo(ctx_rows, event.id, context_ids, k - 1)]

(***************************************************************************)
(* Context graph (graph/mod.rs): nodes are entity ids, edges carry         *)
(* {edge_id, relation, strength} between two nodes.                        *)
(***************************************************************************)
\* add_entity that adds no node.
AddEntity_Forgets(nodes, id) == nodes

\* ContextGraph::add_entity (idempotent).
AddEntity(nodes, id) == nodes \cup {id}

\* ContextGraph::add_edge that leaves an edge it already has as it is.
AddEdge_KeepsStrength(gedges, edge) ==
    IF \E g \in gedges : g.from = edge.from /\ g.to = edge.to /\ g.edge_id = edge.id
    THEN gedges
    ELSE gedges \cup {[edge_id |-> edge.id, from |-> edge.from, to |-> edge.to,
                       relation |-> edge.relation, strength |-> edge.strength]}

\* ContextGraph::add_edge: an edge with the same edge_id between the same
\* endpoints has its strength updated, otherwise a new edge is added.
AddEdge(gedges, edge) ==
    IF \E g \in gedges : g.from = edge.from /\ g.to = edge.to /\ g.edge_id = edge.id
    THEN { IF g.from = edge.from /\ g.to = edge.to /\ g.edge_id = edge.id
           THEN [g EXCEPT !.strength = edge.strength]
           ELSE g : g \in gedges }
    ELSE gedges \cup {[edge_id |-> edge.id, from |-> edge.from, to |-> edge.to,
                       relation |-> edge.relation, strength |-> edge.strength]}

\* ContextGraph::rebuild, the loop over the entities.
RECURSIVE RebuildEntities(_, _)
RebuildEntities(nodes, ents) ==
    IF ents = {} THEN nodes
    ELSE LET e == CHOOSE x \in ents : TRUE
         IN  RebuildEntities(AddEntity(nodes, e.id), ents \ {e})

\* ContextGraph::rebuild, the loop over the edges (each as all_edges reads
\* it); add_edge adds the endpoints it does not know.
RECURSIVE RebuildEdges(_, _)
RebuildEdges(g, rows) ==
    IF rows = {} THEN g
    ELSE LET r == CHOOSE x \in rows : TRUE
             edge == [r EXCEPT !.strength = F64ToF32(r.strength)]
         IN  RebuildEdges([nodes |-> AddEntity(AddEntity(g.nodes, edge.from), edge.to),
                           gedges |-> AddEdge(g.gedges, edge)],
                          rows \ {r})

\* ContextGraph::rebuild
Rebuild(ents, rows) ==
    RebuildEdges([nodes |-> RebuildEntities({}, ents), gedges |-> {}], rows)

(***************************************************************************)
(* Linker (linker/mod.rs).                                                 *)
(***************************************************************************)
\* EntityKind, as its variants are stored and compared: a Custom kind is
\* equal to no plain kind, whatever its string.
EntityKinds ==
    {"project", "file", "repository", "branch", "commit", "url", "domain", "app",
     "terminal_session", "terminal_command", "custom:file"}

\* infer_relation with every arm matching the pair in either order.
InferRelation_EitherOrder(subject_kind, context_kind) ==
    CASE {subject_kind, context_kind} = {"file", "project"} -> "belongs_to"
      [] {subject_kind, context_kind} = {"commit", "repository"} -> "belongs_to"
      [] {subject_kind, context_kind} = {"branch", "repository"} -> "belongs_to"
      [] {subject_kind, context_kind} = {"url", "domain"} -> "belongs_to"
      [] {subject_kind, context_kind} = {"project", "repository"} -> "contains"
      [] OTHER -> "related_to"

\* infer_relation
InferRelation(subject_kind, context_kind) ==
    CASE subject_kind = "file" /\ context_kind = "project" -> "belongs_to"
      [] subject_kind = "commit" /\ context_kind = "repository" -> "belongs_to"
      [] subject_kind = "branch" /\ context_kind = "repository" -> "belongs_to"
      [] subject_kind = "url" /\ context_kind = "domain" -> "belongs_to"
      [] subject_kind = "project" /\ context_kind = "repository" -> "contains"
      [] OTHER -> "related_to"

\* resolve_entity_ref that hands out the id of a new entity it never inserts.
ResolveEntityRef_NoInsert(ents, nodes, ref, timestamp) ==
    IF EntityMatches(ents, ref.kind, ref.identity) # {}
    THEN LET existing == [FindEntityByKindAndName(ents, ref.kind, ref.identity)
                            EXCEPT !.last_seen = timestamp]
         IN  [entities |-> InsertEntity(ents, existing),
              nodes |-> AddEntity(nodes, existing.id),
              id |-> existing.id]
    ELSE [entities |-> ents, nodes |-> AddEntity(nodes, NewId(ents)),
          id |-> NewId(ents)]

\* resolve_entity_ref without its lookup: every reference creates an entity.
ResolveEntityRef_AlwaysCreates(ents, nodes, ref, timestamp) ==
    LET entity == [id |-> NewId(ents), kind |-> ref.kind, name |-> ref.identity,
                   first_seen |-> timestamp, last_seen |-> timestamp]
    IN  [entities |-> InsertEntity(ents, entity),
         nodes |-> AddEntity(nodes, entity.id),
         id |-> entity.id]

\* Linker::resolve_entity_ref: the entity found (last_seen overwritten with the
\* event's timestamp) or created; the repository and graph after the call.
ResolveEntityRef(ents, nodes, ref, timestamp) ==
    IF EntityMatches(ents, ref.kind, ref.identity) # {}
    THEN LET existing == [FindEntityByKindAndName(ents, ref.kind, ref.identity)
                            EXCEPT !.last_seen = timestamp]
         IN  [entities |-> InsertEntity(ents, existing),
              nodes |-> AddEntity(nodes, existing.id),
              id |-> existing.id]
    ELSE LET entity == [id |-> NewId(ents), kind |-> ref.kind, name |-> ref.identity,
                        first_seen |-> timestamp, last_seen |-> timestamp]
         IN  [entities |-> InsertEntity(ents, entity),
              nodes |-> AddEntity(nodes, entity.id),
              id |-> entity.id]

\* ensure_edge without its lookup: every observation creates an edge.
EnsureEdge_AlwaysCreates(eds, nodes, gedges, from, to, relation, timestamp) ==
    LET edge == [id |-> NewId(eds), from |-> from, to |-> to, relation |-> relation,
                 strength |-> F32Half, created_at |-> timestamp,
                 last_reinforced |-> timestamp]
    IN  [edges |-> InsertEdge(eds, edge),
         nodes |-> AddEntity(AddEntity(nodes, from), to),
         gedges |-> AddEdge(gedges, edge)]

\* Linker::ensure_edge: reinforce the edge found for (from, to, relation) or
\* create it with strength 0.5; the repository and graph after the call.
EnsureEdge(eds, nodes, gedges, from, to, relation, timestamp) ==
    LET edge ==
          IF EdgeMatches(eds, from, to, relation) # {}
          THEN LET existing == FindEdge(eds, from, to, relation)
               IN  [existing EXCEPT !.strength = Reinforce(existing.strength),
                                    !.last_reinforced = timestamp]
          ELSE [id |-> NewId(eds), from |-> from, to |-> to, relation |-> relation,
                strength |-> F32Half, created_at |-> timestamp,
                last_reinforced |-> timestamp]
    IN  [edges |-> InsertEdge(eds, edge),
         nodes |-> AddEntity(AddEntity(nodes, from), to),
         gedges |-> AddEdge(gedges, edge)]

\* ContextGraph::related: the entity ids within `depth` undirected hops of
\* entity_id, entity_id itself left out; empty when it is no node.
Neighbors(gedges, S) ==
    {g.to : g \in {h \in gedges : h.from \in S}}
      \cup {g.from : g \in {h \in gedges : h.to \in S}}

RECURSIVE Within(_, _, _)
Within(gedges, S, depth) ==
    IF depth = 0 THEN S
    ELSE Within(gedges, S \cup Neighbors(gedges, S), depth - 1)

Related(nodes, gedges, entity_id, depth) ==
    IF entity_id \notin nodes THEN {}
    ELSE Within(gedges, {entity_id}, depth) \ {entity_id}

(***************************************************************************)
(* Protocol (cronos-proto/message.rs).                                     *)
(***************************************************************************)
\* Message::new
NewMessage(id, body) == [id |-> id] @@ body

\* Message::ack that gives the response an id of its own.
Ack_OwnId(request_id) ==
    NewMessage(request_id + 1, [kind |-> "ack", request_id |-> request_id])

\* Message::ack
Ack(request_id) == NewMessage(request_id, [kind |-> "ack", request_id |-> request_id])

\* Message::error
Error(request_id, code) ==
    NewMessage(request_id, [kind |-> "error", request_id |-> request_id, code |-> code])

\* No message (a handler between requests).
NoMessage == [id |-> 0, kind |-> "none"]

\* MessageKind variants the engine handles as requests.
RequestKinds ==
    {"emit_event", "collector_handshake", "heartbeat", "query", "status", "list_collectors"}

\* The remaining MessageKind variants (well-formed, but no request of the engine).
OtherKinds ==
    {"set_tracking_paused", "tracking_status", "ack", "error", "query_result",
     "status_result", "collector_list"}

CollectorNames == {"c1", "c2"}

\* QueryKind values clients send (the four the engine dispatches).
Queries ==
    {[kind |-> "search", text |-> "a", limit |-> 1],
     [kind |-> "recent", limit |-> 1],
     [kind |-> "timeline", from |-> 0, to |-> TsMax],
     [kind |-> "related", entity_id |-> 1, depth |-> 1]}

\* Bodies of the well-formed messages a peer sends, given the events it emits.
Bodies(menu) ==
    {[kind |-> "emit_event", event |-> e] : e \in menu}
      \cup {[kind |-> "collector_handshake", name |-> n, source |-> s] :
               n \in CollectorNames, s \in Sources}
      \cup {[kind |-> "query", query |-> q] : q \in Queries}
      \cup {[kind |-> k] : k \in {"heartbeat", "status", "list_collectors"} \cup OtherKinds}

(***************************************************************************)
(* State.                                                                  *)
(***************************************************************************)
VARIABLES
    entities,       \* Repository: rows of the entities table
    events,         \* Repository: rows of the events table
    event_context,  \* Repository: rows of the event_context table
    edges,          \* Repository: rows of the edges table
    graph_nodes,    \* ContextGraph: entity_index
    graph_edges,    \* ContextGraph: edges of the DiGraph
    dedup_cache,    \* IngestPipeline.dedup_cache
    collectors,     \* Engine.collectors
    repo_lock,      \* Engine.repo mutex: the connections holding it
    graph_lock,     \* Engine.graph mutex: the connections holding it
    pc,             \* per connection: where its handler stands
    req,            \* per connection: the message being handled
    resp,           \* per connection: the response handle_message returned
    loc,            \* per connection: locals of the running handler
    frames,         \* frames read so far, over all connections
    reinforced,     \* history: reinforcements applied to each edge id
    seen_half,      \* history: a reader saw the store while a link was under way
    linked,         \* history: EmitEvents linked without error so far
    sessions,       \* Repository: rows of the sessions table
    agg,            \* history of the aggregator: its runs, the events table at
                    \* the last run, that run's input and sessions, and how
                    \* many sessions each event was counted in
    bfs,            \* a call of ContextGraph::related: its graph and arguments,
                    \* its queue and visited map, its result
    io_log,         \* history, for the connections it is kept for: the ids of
                    \* the requests read and of the responses written since
                    \* the connection was accepted
    handshakes,     \* history, for the collector names it is kept for: the
                    \* sources of the handshakes of that name, in order
    wire,           \* a call of read_frame or write_frame: the stream or the
                    \* payload it is given, the bytes it moved, its result
    overflow_checks,  \* the build: TRUE when integer overflow panics (the
                      \* debug profile), FALSE when it wraps (release)
    ingest_poisoned,  \* Engine.ingest mutex: a handler panicked holding it
    db,             \* a database run_migrations is run on: its tables, the
                    \* rows of schema_version, and where the run stands
    collector       \* a collector process: where its run_session stands, the
                    \* frames it wrote and read on each connection it opened

vars ==
    <<entities, events, event_context, edges, graph_nodes, graph_edges, dedup_cache,
      collectors, repo_lock, graph_lock, pc, req, resp, loc, frames,
      reinforced, seen_half, linked, sessions, agg, bfs, io_log, handshakes, wire,
      overflow_checks,
      ingest_poisoned, db, collector>>

repo_vars == <<entities, events, event_context, edges>>

graph_vars == <<graph_nodes, graph_edges>>

lock_vars == <<repo_lock, graph_lock>>

agg_vars == <<sessions, agg>>

build_vars == <<overflow_checks, ingest_poisoned>>

coll_vars == <<collectors, handshakes>>

\* Calls of single functions, followed on their own.
call_vars == <<bfs, wire, db, collector>>

\* The engine, its connections and their histories.
daemon_vars ==
    <<repo_vars, graph_vars, lock_vars, dedup_cache, coll_vars, pc, req, resp, loc,
      frames, reinforced, seen_half, linked, build_vars>>

\* What the connection handlers leave alone (all but handle_emit_event, for
\* the ingest mutex).
other_vars == <<agg_vars, call_vars, build_vars>>

\* The same and the history of the frames, for steps that read and write none.
quiet_vars == <<other_vars, io_log>>

\* The history of a connection just accepted.
NoFrames == [reads |-> <<>>, writes |-> <<>>]

\* The running daemon.
served_vars == <<daemon_vars, agg_vars, io_log>>

\* No call of read_frame or write_frame followed.
NoTransfer ==
    [op |-> "none", pc |-> "none", len |-> 0, prefix |-> 0, moved |-> 0,
     result |-> "none"]

\* No run of run_migrations under way.
NoMigration ==
    [tables |-> {}, rows |-> <<>>, pc |-> "none", version |-> {}, current |-> 0,
     runs |-> 0, result |-> "none", before |-> [tables |-> {}, rows |-> <<>>]]

\* No item of the collector's channel in hand.
NoItem == [id |-> 0, offline |-> FALSE]

\* No collector process.  channel is the mpsc channel between the producer
\* and run_session, item what rx.recv() handed over last; produced and
\* delivered are history: the items produced so far, and those written to
\* the daemon as EmitEvents.
NoCollector ==
    [kind |-> "none", pc |-> "none", calls |-> 0, conns |-> 0, events |-> 0,
     todo |-> 0, trace |-> <<>>, channel |-> <<>>, item |-> NoItem,
     produced |-> 0, delivered |-> {}]

\* No call of related under way.
NoSearch ==
    [edges |-> <<>>, start |-> 0, depth |-> 0, pc |-> "none", queue |-> <<>>,
     visited |-> <<>>, result |-> {}]

\* The aggregator has not run.
NoRuns == [runs |-> 0, now |-> 0, seen |-> {}, input |-> <<>>, output |-> <<>>, counted |-> <<>>]

NoLocals ==
    [subject |-> 0, context_ids |-> <<>>, related |-> {},
     kept |-> FALSE, had_last |-> FALSE, last_ts |-> 0, stored |-> FALSE]

\* Engine::open on a new database, no connection accepted yet.
EngineInit ==
    /\ entities = {}
    /\ events = {}
    /\ event_context = {}
    /\ edges = {}
    /\ graph_nodes = {}
    /\ graph_edges = {}
    /\ dedup_cache = <<>>
    /\ collectors = <<>>
    /\ repo_lock = {}
    /\ graph_lock = {}
    /\ pc = [c \in Conns |-> "closed"]
    /\ req = [c \in Conns |-> NoMessage]
    /\ resp = [c \in Conns |-> NoMessage]
    /\ loc = [c \in Conns |-> NoLocals]
    /\ frames = 0
    /\ reinforced = <<>>
    /\ seen_half = FALSE
    /\ linked = 0
    /\ sessions = {}
    /\ agg = NoRuns
    /\ ingest_poisoned = FALSE

\* The release build.
Init ==
    /\ EngineInit
    /\ handshakes = <<>>
    /\ bfs = NoSearch
    /\ wire = NoTransfer
    /\ db = NoMigration
    /\ collector = NoCollector
    /\ io_log = <<>>
    /\ overflow_checks = FALSE

\* A map with key k set to v (HashMap::insert).
MapInsert(m, k, v) == [x \in DOMAIN m \cup {k} |-> IF x = k THEN v ELSE m[x]]

\* Some connection is inside Linker::link, past the first write of its event
\* and before its event row is written.
MidLink(c) == pc[c] = "link_context"

HalfResolvedBesides(c) == \E d \in Conns \ {c} : MidLink(d)

\* handle_message returns `m`: the handler goes on to write it.
Return(c, m) ==
    /\ resp' = [resp EXCEPT ![c] = m]
    /\ pc' = [pc EXCEPT ![c] = "respond"]

(***************************************************************************)
(* Ingest (ingest/mod.rs).                                                 *)
(***************************************************************************)
DedupKey(event) == <<DebugFmt(event.source), event.subject.identity>>

\* The duplicate test without unsigned_abs: only an event later than the
\* last accepted one can be a duplicate.
WithinWindow_ForwardOnly(timestamp, last_ts) ==
    /\ WrappingSub(timestamp, last_ts) >= 0
    /\ WrappingSub(timestamp, last_ts) < DedupWindow

\* The duplicate test of IngestPipeline::process:
\* (event.timestamp - last_ts).unsigned_abs() < self.dedup_window_ms
WithinWindow(timestamp, last_ts) ==
    UnsignedAbs(WrappingSub(timestamp, last_ts)) < DedupWindow

\* IngestPipeline::process: `event.timestamp - last_ts` leaves the range of
\* Timestamp (a panic where overflow is checked, with the guard of the
\* ingest mutex alive).
SubOverflows(cache, event) ==
    /\ event.subject.identity # ""
    /\ DedupKey(event) \in DOMAIN cache
    /\ event.timestamp - cache[DedupKey(event)] \notin TsMin..TsMax

\* Process without its first test: an event with an empty identity is deduped
\* and kept like any other.
Process_KeepsEmptyIdentity(cache, event) ==
    IF /\ DedupKey(event) \in DOMAIN cache
       /\ WithinWindow(event.timestamp, cache[DedupKey(event)])
    THEN [kept |-> FALSE, cache |-> cache]
    ELSE [kept |-> TRUE,
          cache |-> MapInsert(cache, DedupKey(event), event.timestamp)]

\* process without the insert into dedup_cache: the lookup only.
Process_LookupOnly(cache, event) ==
    IF event.subject.identity = ""
    THEN [kept |-> FALSE, cache |-> cache]
    ELSE IF /\ DedupKey(event) \in DOMAIN cache
            /\ WithinWindow(event.timestamp, cache[DedupKey(event)])
         THEN [kept |-> FALSE, cache |-> cache]
         ELSE [kept |-> TRUE, cache |-> cache]

\* IngestPipeline::process: whether the event is kept (Some) and the cache after.
Process(cache, event) ==
    IF event.subject.identity = ""
    THEN [kept |-> FALSE, cache |-> cache]
    ELSE IF /\ DedupKey(event) \in DOMAIN cache
            /\ WithinWindow(event.timestamp, cache[DedupKey(event)])
         THEN [kept |-> FALSE, cache |-> cache]
         ELSE [kept |-> TRUE,
               cache |-> MapInsert(cache, DedupKey(event), event.timestamp)]

(***************************************************************************)
(* Server (server/mod.rs): accept loop and per-connection handler.         *)
(***************************************************************************)
\* run: listener.accept() and tokio::spawn of a handler for the connection.
Accept(c) ==
    /\ pc[c] \in {"closed", "failed", "panicked"}
    /\ pc' = [pc EXCEPT ![c] = "idle"]
    /\ io_log' = IF c \in DOMAIN io_log THEN [io_log EXCEPT ![c] = NoFrames] ELSE io_log
    /\ UNCHANGED <<other_vars, linked, repo_vars, graph_vars, lock_vars, dedup_cache,
                   coll_vars, req, resp, loc, frames, reinforced, seen_half>>

\* handle_connection: read_frame fails on a payload that is no Message
\* (serde_json error: malformed JSON or an unknown variant); `?` returns the
\* error from the handler, which ends without writing anything.
ReadMalformed(c, maxf) ==
    /\ pc[c] = "idle"
    /\ frames < maxf
    /\ frames' = frames + 1
    /\ pc' = [pc EXCEPT ![c] = "failed"]
    /\ UNCHANGED <<quiet_vars, linked, repo_vars, graph_vars, lock_vars, dedup_cache,
                   coll_vars, req, resp, loc, reinforced, seen_half>>

\* handle_connection: the peer closed; read_frame returns ConnectionClosed and
\* the handler ends.
PeerClosed(c) ==
    /\ pc[c] = "idle"
    /\ pc' = [pc EXCEPT ![c] = "closed"]
    /\ UNCHANGED <<quiet_vars, linked, repo_vars, graph_vars, lock_vars, dedup_cache,
                   coll_vars, req, resp, loc, frames, reinforced, seen_half>>

\* handle_connection: write_frame of the response, then back to read_frame.
WriteResponse(c) ==
    /\ pc[c] = "respond"
    /\ req' = [req EXCEPT ![c] = NoMessage]
    /\ resp' = [resp EXCEPT ![c] = NoMessage]
    /\ loc' = [loc EXCEPT ![c] = NoLocals]
    /\ pc' = [pc EXCEPT ![c] = "idle"]
    /\ io_log' = IF c \in DOMAIN io_log
                 THEN [io_log EXCEPT ![c].writes = Append(@, resp[c].id)]
                 ELSE io_log
    /\ UNCHANGED <<other_vars, linked, repo_vars, graph_vars, lock_vars, dedup_cache,
                   coll_vars, frames, reinforced, seen_half>>

(***************************************************************************)
(* Engine (engine.rs).  The actions taking a message m are the first step  *)
(* of handle_message(m); the others continue a handler that is under way.  *)
(***************************************************************************)
\* A mutex that excludes nobody.
LockFree_Always(lock) == TRUE

\* Mutex::lock succeeds only while no handler holds the mutex.
LockFree(lock) == lock = {}

\* handle_message: Heartbeat => Message::ack(request_id)
HandleHeartbeat(c, m) ==
    /\ m.kind = "heartbeat"
    /\ Return(c, Ack(m.id))
    /\ UNCHANGED <<other_vars, linked, repo_vars, graph_vars, lock_vars, dedup_cache,
                   coll_vars, loc, reinforced, seen_half>>

\* The catch-all arm answering with Ack instead of an error.
HandleUnexpected_Acks(c, m) ==
    /\ m.kind \notin RequestKinds
    /\ Return(c, Ack(m.id))
    /\ UNCHANGED <<other_vars, linked, repo_vars, graph_vars, lock_vars, dedup_cache,
                   coll_vars, loc, reinforced, seen_half>>

\* handle_message: _ => Message::error(request_id, BadRequest, ..)
HandleUnexpected(c, m) ==
    /\ m.kind \notin RequestKinds
    /\ Return(c, Error(m.id, "bad_request"))
    /\ UNCHANGED <<other_vars, linked, repo_vars, graph_vars, lock_vars, dedup_cache,
                   coll_vars, loc, reinforced, seen_half>>

\* handle_handshake with entry(name).or_insert(..) for insert(name, ..).
InsertCollector_KeepsFirst(colls, name, source) ==
    IF name \in DOMAIN colls THEN colls
    ELSE MapInsert(colls, name,
                   [name |-> name, source |-> source, connected |-> TRUE,
                    events_sent |-> 0])

\* handle_handshake: collectors.insert(name, CollectorInfo{..})
InsertCollector(colls, name, source) ==
    MapInsert(colls, name,
              [name |-> name, source |-> source, connected |-> TRUE, events_sent |-> 0])

\* Engine::handle_handshake
HandleHandshake(c, m) ==
    /\ m.kind = "collector_handshake"
    /\ collectors' = InsertCollector(collectors, m.name, m.source)
    /\ handshakes' = IF m.name \in DOMAIN handshakes
                     THEN [handshakes EXCEPT ![m.name] = Append(@, m.source)]
                     ELSE handshakes
    /\ Return(c, Ack(m.id))
    /\ UNCHANGED <<other_vars, linked, repo_vars, graph_vars, lock_vars, dedup_cache, loc,
                   reinforced, seen_half>>

\* Engine::handle_list_collectors
HandleListCollectors(c, m) ==
    /\ m.kind = "list_collectors"
    /\ Return(c, NewMessage(m.id,
                            [kind |-> "collector_list",
                             collectors |-> {collectors[n] : n \in DOMAIN collectors}]))
    /\ UNCHANGED <<other_vars, linked, repo_vars, graph_vars, lock_vars, dedup_cache,
                   coll_vars, loc, reinforced, seen_half>>

\* Engine::handle_status: the repository is locked, the three counts are read
\* and, the repository still held, the collector map's size.
HandleStatus(c, m) ==
    /\ m.kind = "status"
    /\ LockFree(repo_lock)
    /\ Return(c, NewMessage(m.id,
                            [kind |-> "status_result",
                             info |-> [entity_count |-> Cardinality(entities),
                                       edge_count |-> Cardinality(edges),
                                       event_count |-> Cardinality(events),
                                       connected_collectors |->
                                           Cardinality(DOMAIN collectors)]]))
    /\ seen_half' = (seen_half \/ HalfResolvedBesides(c))
    /\ UNCHANGED <<other_vars, linked, repo_vars, graph_vars, lock_vars, dedup_cache,
                   coll_vars, loc, reinforced>>

\* The subsets of S a LIMIT n query may return when the order among the rows
\* of S is not fixed.
Limit(S, n) == {T \in SUBSET S : Cardinality(T) = Min(n, Cardinality(S))}

\* Repository::search_entities, with MATCH taken as whole-name match.
SearchEntities(ents, text, limit) == Limit({e \in ents : e.name = text}, limit)

\* Repository::recent_events: ORDER BY timestamp DESC LIMIT n.
RecentEvents(evs, limit) ==
    {T \in Limit(evs, limit) :
        \A t \in T : \A u \in evs \ T : t.timestamp >= u.timestamp}

\* Repository::events_in_range
EventsInRange(evs, start, end) ==
    {e \in evs : e.timestamp >= start /\ e.timestamp <= end}

\* stored_event_to_event over the rows: those whose subject entity is found.
StoredEventsToEvents(ents, rows) ==
    {r.id : r \in {q \in rows : \E e \in ents : e.id = q.subject_id}}

QueryResult(id, ents, evs) ==
    NewMessage(id, [kind |-> "query_result", entities |-> ents, events |-> evs])

\* Engine::handle_query, Search / Recent / Timeline: under the repository lock.
HandleQueryRepo(c, m) ==
    /\ m.kind = "query"
    /\ m.query.kind \in {"search", "recent", "timeline"}
    /\ LockFree(repo_lock)
    /\ LET q == m.query
       IN  CASE q.kind = "search" ->
                  \E T \in SearchEntities(entities, q.text, q.limit) :
                     Return(c, QueryResult(m.id, {e.id : e \in T}, {}))
             [] q.kind = "recent" ->
                  \E T \in RecentEvents(events, q.limit) :
                     Return(c, QueryResult(m.id, {}, StoredEventsToEvents(entities, T)))
             [] q.kind = "timeline" ->
                  Return(c, QueryResult(m.id, {},
                            StoredEventsToEvents(entities,
                                                 EventsInRange(events, q.from, q.to))))
    /\ seen_half' = (seen_half \/ HalfResolvedBesides(c))
    /\ UNCHANGED <<other_vars, linked, repo_vars, graph_vars, lock_vars, dedup_cache,
                   coll_vars, loc, reinforced>>

\* Engine::handle_query, Related: the graph is locked and traversed.
RelatedLockGraph(c, m) ==
    /\ m.kind = "query"
    /\ m.query.kind = "related"
    /\ LockFree(graph_lock)
    /\ graph_lock' = {c}
    /\ loc' = [loc EXCEPT ![c].related =
                  Related(graph_nodes, graph_edges, m.query.entity_id, m.query.depth)]
    /\ pc' = [pc EXCEPT ![c] = "related_lock_repo"]
    /\ seen_half' = (seen_half \/ HalfResolvedBesides(c))
    /\ UNCHANGED <<other_vars, linked, repo_vars, graph_vars, repo_lock, dedup_cache,
                   coll_vars, resp, reinforced>>

\* Engine::handle_query, Related: the graph still held, the repository is
\* locked and each related id looked up; both locks are released on return.
RelatedLockRepo(c) ==
    /\ pc[c] = "related_lock_repo"
    /\ LockFree(repo_lock)
    /\ graph_lock' = {}
    /\ Return(c, QueryResult(req[c].id,
                             {id \in loc[c].related : \E e \in entities : e.id = id}, {}))
    /\ seen_half' = (seen_half \/ HalfResolvedBesides(c))
    /\ UNCHANGED <<quiet_vars, linked, repo_vars, graph_vars, repo_lock, dedup_cache,
                   coll_vars, req, loc, frames, reinforced>>

\* Engine::handle_emit_event: ingest.process under the ingest lock.
EmitIngest(c, m) ==
    /\ m.kind = "emit_event"
    /\ IF ingest_poisoned \/ (overflow_checks /\ SubOverflows(dedup_cache, m.event))
       THEN /\ ingest_poisoned' = TRUE
            /\ pc' = [pc EXCEPT ![c] = "panicked"]
            /\ UNCHANGED <<dedup_cache, loc, resp>>
       ELSE LET r == Process(dedup_cache, m.event)
                had == DedupKey(m.event) \in DOMAIN dedup_cache
            IN  /\ dedup_cache' = r.cache
                /\ loc' = [loc EXCEPT ![c].kept = r.kept,
                                      ![c].had_last = had,
                                      ![c].last_ts =
                                          IF had THEN dedup_cache[DedupKey(m.event)]
                                          ELSE 0]
                /\ IF r.kept
                   THEN /\ pc' = [pc EXCEPT ![c] = "emit_lock_repo"]
                        /\ UNCHANGED resp
                   ELSE Return(c, Ack(m.id))
                /\ UNCHANGED ingest_poisoned
    /\ UNCHANGED <<agg_vars, call_vars, overflow_checks, linked, repo_vars, graph_vars,
                   lock_vars, coll_vars, reinforced, seen_half>>

\* Engine::handle_emit_event: self.repo.lock()
EmitLockRepo(c) ==
    /\ pc[c] = "emit_lock_repo"
    /\ LockFree(repo_lock)
    /\ repo_lock' = {c}
    /\ pc' = [pc EXCEPT ![c] = "emit_lock_graph"]
    /\ UNCHANGED <<quiet_vars, linked, repo_vars, graph_vars, graph_lock, dedup_cache,
                   coll_vars, req, resp, loc, frames, reinforced, seen_half>>

\* Engine::handle_emit_event: self.graph.lock()
EmitLockGraph(c) ==
    /\ pc[c] = "emit_lock_graph"
    /\ LockFree(graph_lock)
    /\ graph_lock' = {c}
    /\ pc' = [pc EXCEPT ![c] = "link_subject"]
    /\ UNCHANGED <<quiet_vars, linked, repo_vars, graph_vars, repo_lock, dedup_cache,
                   coll_vars, req, resp, loc, frames, reinforced, seen_half>>

\* Linker::link: resolve the subject.
LinkSubject(c) ==
    /\ pc[c] = "link_subject"
    /\ LET event == req[c].event
           r == ResolveEntityRef(entities, graph_nodes, event.subject, event.timestamp)
       IN  /\ entities' = r.entities
           /\ graph_nodes' = r.nodes
           /\ loc' = [loc EXCEPT ![c].subject = r.id]
    /\ pc' = [pc EXCEPT ![c] = "link_context"]
    /\ seen_half' = (seen_half \/ HalfResolvedBesides(c))
    /\ UNCHANGED <<quiet_vars, linked, events, event_context, edges, graph_edges,
                   lock_vars, dedup_cache, coll_vars, req, resp, frames, reinforced>>

\* Linker::link: one turn of the loop over event.context (resolve the context
\* entity, infer the relation, ensure the edge).
LinkContext(c) ==
    /\ pc[c] = "link_context"
    /\ Len(loc[c].context_ids) < Len(req[c].event.context)
    /\ LET event == req[c].event
           ctx_ref == event.context[Len(loc[c].context_ids) + 1]
           r == ResolveEntityRef(entities, graph_nodes, ctx_ref, event.timestamp)
           relation == InferRelation(event.subject.kind, ctx_ref.kind)
           found == EdgeMatches(edges, loc[c].subject, r.id, relation)
           g == EnsureEdge(edges, r.nodes, graph_edges, loc[c].subject, r.id, relation,
                           event.timestamp)
       IN  /\ entities' = r.entities
           /\ edges' = g.edges
           /\ graph_nodes' = g.nodes
           /\ graph_edges' = g.gedges
           /\ loc' = [loc EXCEPT ![c].context_ids = Append(@, r.id)]
           /\ reinforced' =
                 IF found = {}
                 THEN MapInsert(reinforced, NewId(edges), 0)
                 ELSE LET id == FindEdge(edges, loc[c].subject, r.id, relation).id
                      IN  MapInsert(reinforced, id, reinforced[id] + 1)
    /\ seen_half' = (seen_half \/ HalfResolvedBesides(c))
    /\ UNCHANGED <<quiet_vars, linked, events, event_context, lock_vars, dedup_cache,
                   coll_vars, pc, req, resp, frames>>

\* Linker::link: repo.insert_event, then the end of the block that holds both
\* guards; an Err becomes Error{internal_error}.
LinkInsertEvent(c) ==
    /\ pc[c] = "link_context"
    /\ Len(loc[c].context_ids) = Len(req[c].event.context)
    /\ LET r == InsertEvent(events, event_context, req[c].event, loc[c].subject,
                            loc[c].context_ids)
       IN  /\ events' = r.events
           /\ event_context' = r.event_context
           /\ loc' = [loc EXCEPT ![c].stored = (r.events # events)]
           /\ linked' = IF r.ok THEN linked + 1 ELSE linked
           /\ IF r.ok
              THEN /\ pc' = [pc EXCEPT ![c] = "emit_count"]
                   /\ UNCHANGED resp
              ELSE Return(c, Error(req[c].id, "internal_error"))
    /\ repo_lock' = {}
    /\ graph_lock' = {}
    /\ UNCHANGED <<quiet_vars, entities, edges, graph_vars, dedup_cache, coll_vars, req,
                   frames, reinforced, seen_half>>

\* The counting step with for_each in place of find: every collector whose
\* source renders like the event's is counted.
EmitCount_EveryMatch(c) ==
    /\ pc[c] = "emit_count"
    /\ collectors' =
          [n \in DOMAIN collectors |->
              IF DebugFmt(collectors[n].source) = DebugFmt(req[c].event.source)
              THEN [collectors[n] EXCEPT !.events_sent = @ + 1]
              ELSE collectors[n]]
    /\ Return(c, Ack(req[c].id))
    /\ UNCHANGED <<handshakes, quiet_vars, linked, repo_vars, graph_vars, lock_vars, dedup_cache, req,
                   loc, frames, reinforced, seen_half>>

\* Engine::handle_emit_event, Ok(()): events_sent of the first collector (in
\* the map's iteration order, which is not fixed) whose source renders like
\* the event's; then Ack.
EmitCount(c) ==
    /\ pc[c] = "emit_count"
    /\ LET matching == {n \in DOMAIN collectors :
                          DebugFmt(collectors[n].source) = DebugFmt(req[c].event.source)}
       IN  IF matching = {}
           THEN UNCHANGED collectors
           ELSE \E n \in matching :
                   collectors' = [collectors EXCEPT ![n].events_sent = @ + 1]
    /\ Return(c, Ack(req[c].id))
    /\ UNCHANGED <<handshakes, quiet_vars, linked, repo_vars, graph_vars, lock_vars, dedup_cache, req,
                   loc, frames, reinforced, seen_half>>

\* Engine::handle_message: the dispatch on msg.kind, up to the handler's first
\* access to shared state.
HandleMessage(c, m) ==
    \/ HandleHeartbeat(c, m)
    \/ HandleUnexpected(c, m)
    \/ HandleHandshake(c, m)
    \/ HandleListCollectors(c, m)
    \/ HandleStatus(c, m)
    \/ HandleQueryRepo(c, m)
    \/ RelatedLockGraph(c, m)
    \/ EmitIngest(c, m)

\* handle_connection: read_frame yields a well-formed Message and it is passed
\* to handle_message.  Each request of the model carries a distinct id.
ReadFrame(c, bodies, maxf) ==
    /\ pc[c] = "idle"
    /\ frames < maxf
    /\ frames' = frames + 1
    /\ \E body \in bodies :
          LET m == NewMessage(frames + 1, body)
          IN  /\ req' = [req EXCEPT ![c] = m]
              /\ io_log' = IF c \in DOMAIN io_log
                           THEN [io_log EXCEPT ![c].reads = Append(@, m.id)]
                           ELSE io_log
              /\ HandleMessage(c, m)

\* The later steps of a handler inside handle_message.
Continue(c) ==
    \/ RelatedLockRepo(c)
    \/ EmitLockRepo(c)
    \/ EmitLockGraph(c)
    \/ LinkSubject(c)
    \/ LinkContext(c)
    \/ LinkInsertEvent(c)
    \/ EmitCount(c)

(***************************************************************************)
(* Session aggregator (aggregator.rs).                                     *)
(***************************************************************************)
\* Applications the monitor reports.
Apps == {"x", "y"}

\* cronos_common::now_ms() at a run: a wall clock behind some of the stored
\* timestamps, or past all of them.
Nows == {DedupWindow - 1, TsMax}

\* Repository::last_session_end_time: MAX(end_time) over the sessions, none
\* (here the empty set) when there is no session.
LastSessionEndTime(sess) ==
    IF sess = {} THEN {}
    ELSE {CHOOSE t \in {r.end_time : r \in sess} : \A r \in sess : r.end_time <= t}

\* Option::unwrap_or(0) of the watermark.
UnwrapOrZero(opt) == IF opt = {} THEN 0 ELSE CHOOSE t \in opt : TRUE

\* The rows of S as the query returns them: ORDER BY timestamp ASC, rows of
\* equal timestamp in any order.
SortedSeqs(S) ==
    {q \in [1..Cardinality(S) -> S] :
        /\ \A i, j \in 1..Cardinality(S) : i # j => q[i] # q[j]
        /\ \A i, j \in 1..Cardinality(S) : i < j => q[i].timestamp <= q[j].timestamp}

\* aggregate: the app name of an event, looked up by subject_id.
AppNameOf(ents, subject_id) ==
    IF \E e \in ents : e.id = subject_id
    THEN (CHOOSE e \in ents : e.id = subject_id).name
    ELSE "Unknown"

\* Window titles the monitor reports.
Titles == {"t", "u"}

\* build_sessions, the title of an event pushed without the contains test.
PushTitle_Repeats(titles, window_title) ==
    IF window_title = {} THEN titles
    ELSE Append(titles, CHOOSE t \in window_title : TRUE)

\* build_sessions: the title of an event (an Option, here a set of at most
\* one title) is pushed unless current_titles contains it.
PushTitle(titles, window_title) ==
    IF window_title = {} \/ window_title \subseteq Range(titles) THEN titles
    ELSE Append(titles, CHOOSE t \in window_title : TRUE)

\* build_sessions: the session an event starts.
StartSession(e) ==
    [app_name |-> e.app_name, start_time |-> e.timestamp, end_time |-> e.timestamp,
     event_count |-> 1, window_titles |-> PushTitle(<<>>, e.window_title)]

\* a / b on i64: the quotient truncated toward zero.
TruncDiv(a, b) == IF a >= 0 THEN a \div b ELSE -((-a) \div b)

\* make_session, with the difference of the times for duration_secs.
MakeSession_NoDivision(current) ==
    current @@ [duration_secs |-> WrappingSub(current.end_time, current.start_time)]

\* make_session: the session of the fields build_sessions collected.
MakeSession(current) ==
    current @@ [duration_secs |->
                   TruncDiv(WrappingSub(current.end_time, current.start_time), MsPerSec)]

\* build_sessions, the loop with `<=` for `<`.
RECURSIVE BuildFrom_GapIncluded(_, _, _, _)
BuildFrom_GapIncluded(evs, i, current, done) ==
    IF i > Len(evs) THEN Append(done, MakeSession(current))
    ELSE LET gap == WrappingSub(evs[i].timestamp, current.end_time)
         IN  IF evs[i].app_name = current.app_name /\ gap <= SessionGap
             THEN BuildFrom_GapIncluded(evs, i + 1,
                                        [current EXCEPT !.end_time = evs[i].timestamp,
                                                        !.event_count = @ + 1,
                                                        !.window_titles =
                                                            PushTitle(@, evs[i].window_title)],
                                        done)
             ELSE BuildFrom_GapIncluded(evs, i + 1, StartSession(evs[i]),
                                        Append(done, MakeSession(current)))

\* build_sessions: the loop over events.iter().skip(1), from the i-th event
\* on, with the session under way and the sessions finalized so far.
RECURSIVE BuildFrom(_, _, _, _)
BuildFrom(evs, i, current, done) ==
    IF i > Len(evs) THEN Append(done, MakeSession(current))
    ELSE LET gap == WrappingSub(evs[i].timestamp, current.end_time)
         IN  IF evs[i].app_name = current.app_name /\ gap < SessionGap
             THEN BuildFrom(evs, i + 1,
                            [current EXCEPT !.end_time = evs[i].timestamp,
                                            !.event_count = @ + 1,
                                            !.window_titles =
                                                PushTitle(@, evs[i].window_title)],
                            done)
             ELSE BuildFrom(evs, i + 1, StartSession(evs[i]),
                            Append(done, MakeSession(current)))

\* SessionAggregator::build_sessions
BuildSessions(evs) ==
    IF evs = <<>> THEN <<>> ELSE BuildFrom(evs, 2, StartSession(evs[1]), <<>>)

\* Repository::insert_session for each built session, each under a new id.
InsertSessions(sess, built) ==
    sess \cup {[id |-> Cardinality(sess) + k] @@ built[k] : k \in 1..Len(built)}

\* The history counters stop at MaxRuns.
UpTo(n) == IF n > MaxRuns THEN MaxRuns ELSE n

\* SessionAggregator::aggregate, one run of the periodic task
\* (spawn_aggregator), which holds the repository for the run.
AggregateRun(now) ==
    /\ LockFree(repo_lock)
    /\ LET watermark == UnwrapOrZero(LastSessionEndTime(sessions))
           all_events == EventsInRange(events, watermark, now)
           app_events == {e \in all_events :
                            /\ e.source = "app_monitor"
                            /\ (e.timestamp > watermark \/ watermark = 0)}
       IN  \E order \in SortedSeqs(app_events) :
              LET resolved == [i \in 1..Len(order) |->
                                 [timestamp |-> order[i].timestamp,
                                  app_name |-> AppNameOf(entities, order[i].subject_id),
                                  window_title |-> {}]]
                  built == BuildSessions(resolved)
                  ids == {e.id : e \in app_events}
              IN  /\ sessions' = InsertSessions(sessions, built)
                  /\ agg' = [runs |-> UpTo(agg.runs + 1),
                             now |-> now,
                             seen |-> events,
                             input |-> resolved,
                             output |-> built,
                             counted |->
                                 [id \in DOMAIN agg.counted \cup ids |->
                                     UpTo((IF id \in DOMAIN agg.counted
                                           THEN agg.counted[id] ELSE 0)
                                            + (IF id \in ids THEN 1 ELSE 0))]]
    /\ UNCHANGED <<entities, events, event_context, edges, graph_vars, lock_vars,
                   dedup_cache, coll_vars, pc, req, resp, loc, frames, reinforced,
                   seen_half, linked, call_vars, io_log, build_vars>>

\* The first MaxRuns runs of the periodic task.
Aggregate(now) ==
    /\ agg.runs < MaxRuns
    /\ AggregateRun(now)

(***************************************************************************)
(* ContextGraph::related, one turn of its loop at a time (graph/mod.rs).   *)
(***************************************************************************)
\* neighbors_directed(node, Outgoing): the targets of the edges out of node,
\* the edge added last first.
RECURSIVE OutNeighbors(_, _, _)
OutNeighbors(eds, node, i) ==
    IF i = 0 THEN <<>>
    ELSE IF eds[i].from = node
         THEN <<eds[i].to>> \o OutNeighbors(eds, node, i - 1)
         ELSE OutNeighbors(eds, node, i - 1)

\* neighbors_directed(node, Incoming)
RECURSIVE InNeighbors(_, _, _)
InNeighbors(eds, node, i) ==
    IF i = 0 THEN <<>>
    ELSE IF eds[i].to = node
         THEN <<eds[i].from>> \o InNeighbors(eds, node, i - 1)
         ELSE InNeighbors(eds, node, i - 1)

\* The for loop over neighbours: one not yet in visited is recorded at
\* depth d + 1 and queued.
RECURSIVE VisitAll(_, _, _, _)
VisitAll(st, neighbors, i, d) ==
    IF i > Len(neighbors) THEN st
    ELSE IF neighbors[i] \in DOMAIN st.visited
         THEN VisitAll(st, neighbors, i + 1, d)
         ELSE VisitAll([visited |-> MapInsert(st.visited, neighbors[i], d + 1),
                        queue |-> Append(st.queue, <<neighbors[i], d + 1>>)],
                       neighbors, i + 1, d)

\* related with `d > depth` for `d >= depth`.
Expands_OneTooFar(d, depth) == ~(d > depth)

\* related: `if d >= depth { continue; }`
Expands(d, depth) == ~(d >= depth)

\* related: entity_index.get(entity_id), else return vec![]; the start is
\* queued and recorded at depth 0.
BfsLookup ==
    /\ bfs.pc = "lookup"
    /\ bfs' = IF bfs.start \in 1..BfsNodes
              THEN [bfs EXCEPT !.pc = "loop",
                               !.queue = <<<<bfs.start, 0>>>>,
                               !.visited = MapInsert(<<>>, bfs.start, 0)]
              ELSE [bfs EXCEPT !.pc = "done", !.result = {}]
    /\ UNCHANGED <<served_vars, wire, db, collector>>

\* related: one turn of `while let Some((node, d)) = queue.pop_front()`.
BfsPop ==
    /\ bfs.pc = "loop"
    /\ bfs.queue # <<>>
    /\ LET node == Head(bfs.queue)[1]
           d == Head(bfs.queue)[2]
           popped == [visited |-> bfs.visited, queue |-> Tail(bfs.queue)]
           out == VisitAll(popped, OutNeighbors(bfs.edges, node, Len(bfs.edges)), 1, d)
           inc == VisitAll(out, InNeighbors(bfs.edges, node, Len(bfs.edges)), 1, d)
       IN  bfs' = IF Expands(d, bfs.depth)
                  THEN [bfs EXCEPT !.queue = inc.queue, !.visited = inc.visited]
                  ELSE [bfs EXCEPT !.queue = popped.queue]
    /\ UNCHANGED <<served_vars, wire, db, collector>>

\* related: the queue is empty; the visited nodes other than the start.
BfsCollect ==
    /\ bfs.pc = "loop"
    /\ bfs.queue = <<>>
    /\ bfs' = [bfs EXCEPT !.pc = "done", !.result = DOMAIN bfs.visited \ {bfs.start}]
    /\ UNCHANGED <<served_vars, wire, db, collector>>

(***************************************************************************)
(* Framing (cronos-proto/src/frame.rs).                                    *)
(***************************************************************************)
\* MAX_FRAME_SIZE
MaxFrameSize == Pow2(MaxFrameBits)

\* `payload.len() as u32`: the low bits of the length.
AsU32(n) == n % Pow2(LenBits)

\* write_frame: `let len = payload.len() as u32;`
LenChecked(n) == AsU32(n)

\* write_frame, up to the size check: TooLarge before any byte is written.
WriteCheck ==
    /\ wire.op = "write"
    /\ wire.pc = "check"
    /\ wire' = IF LenChecked(wire.len) > MaxFrameSize
               THEN [wire EXCEPT !.pc = "done", !.result = "too_large"]
               ELSE [wire EXCEPT !.pc = "write", !.prefix = LenChecked(wire.len)]
    /\ UNCHANGED <<served_vars, bfs, db, collector>>

\* write_frame: write_all of the 4 bytes of len, write_all of the payload,
\* flush.
WriteBytes ==
    /\ wire.op = "write"
    /\ wire.pc = "write"
    /\ wire' = [wire EXCEPT !.pc = "done", !.moved = 4 + wire.len, !.result = "ok"]
    /\ UNCHANGED <<served_vars, bfs, db, collector>>

\* read_frame: read_exact of the 4 prefix bytes of a stream that has them,
\* then the size check.
ReadPrefix ==
    /\ wire.op = "read"
    /\ wire.pc = "prefix"
    /\ wire' = IF wire.prefix > MaxFrameSize
               THEN [wire EXCEPT !.pc = "done", !.moved = 4, !.result = "too_large"]
               ELSE [wire EXCEPT !.pc = "payload", !.moved = 4]
    /\ UNCHANGED <<served_vars, bfs, db, collector>>

\* read_frame: read_exact of the payload from the len bytes the stream has
\* after the prefix (an early end is an io error), then serde_json.
ReadPayload ==
    /\ wire.op = "read"
    /\ wire.pc = "payload"
    /\ \/ /\ wire.len < wire.prefix
          /\ wire' = [wire EXCEPT !.pc = "done", !.moved = 4 + wire.len,
                                  !.result = "io"]
       \/ /\ wire.len >= wire.prefix
          /\ \E r \in {"ok", "json"} :
                wire' = [wire EXCEPT !.pc = "done", !.moved = 4 + wire.prefix,
                                    !.result = r]
    /\ UNCHANGED <<served_vars, bfs, db, collector>>

(***************************************************************************)
(* storage/migrations.rs: run_migrations, statement by statement.  The     *)
(* statements are not wrapped in a transaction, so a run that stops at an  *)
(* error leaves what it had executed.                                      *)
(***************************************************************************)
CURRENT_VERSION == 2

V1Tables == <<"entities", "events", "event_context", "edges", "entities_fts">>
V2Tables == <<"sessions">>

\* SELECT version FROM schema_version ORDER BY version DESC LIMIT 1, with
\* .ok(): no row gives None, the empty set here.
SelectVersion(rows) ==
    IF rows = <<>> THEN {}
    ELSE {CHOOSE v \in Range(rows) : \A w \in Range(rows) : w <= v}

\* The final step with the test on `version` left out: always an INSERT.
RecordVersion_AlwaysInsert(rows, version) ==
    Append(rows, CURRENT_VERSION)

\* The final step: INSERT when no version was read, otherwise UPDATE
\* without a WHERE clause, which sets every row.
RecordVersion(rows, version) ==
    IF version = {} THEN Append(rows, CURRENT_VERSION)
    ELSE [i \in DOMAIN rows |-> CURRENT_VERSION]

\* Repository::open calls run_migrations on the connection it opened.
MigStart ==
    /\ db.pc \in {"closed", "done"}
    /\ db.runs < MaxMigRuns
    /\ db' = [db EXCEPT !.pc = "schema_version", !.version = {}, !.current = 0,
                        !.runs = @ + 1, !.result = "none",
                        !.before = [tables |-> db.tables, rows |-> db.rows]]
    /\ UNCHANGED <<served_vars, bfs, wire, collector>>

\* CREATE TABLE IF NOT EXISTS schema_version.
MigCreateVersionTable ==
    /\ db.pc = "schema_version"
    /\ db' = [db EXCEPT !.tables = @ \cup {"schema_version"}, !.pc = "select"]
    /\ UNCHANGED <<served_vars, bfs, wire, collector>>

\* The version is read; a database already at CURRENT_VERSION or beyond is
\* left as it is.
MigSelectVersion ==
    /\ db.pc = "select"
    /\ LET version == SelectVersion(db.rows)
           current == UnwrapOrZero(version)
       IN  db' = [db EXCEPT !.version = version, !.current = current,
                            !.pc = IF current >= CURRENT_VERSION THEN "done"
                                   ELSE IF current < 1 THEN V1Tables[1]
                                   ELSE "v2",
                            !.result = IF current >= CURRENT_VERSION THEN "ok"
                                       ELSE "none"]
    /\ UNCHANGED <<served_vars, bfs, wire, collector>>

\* One statement of the V1 block: CREATE TABLE IF NOT EXISTS for the four
\* plain tables, and for entities_fts a look in sqlite_master first.
MigV1 ==
    /\ \E i \in DOMAIN V1Tables :
        /\ db.pc = V1Tables[i]
        /\ db' = [db EXCEPT !.tables = @ \cup {V1Tables[i]},
                            !.pc = IF i < Len(V1Tables) THEN V1Tables[i + 1]
                                   ELSE "v2"]
    /\ UNCHANGED <<served_vars, bfs, wire, collector>>

\* The V2 block: the sessions table, when current < 2.
MigV2 ==
    /\ db.pc = "v2"
    /\ db' = [db EXCEPT !.tables = IF db.current < 2 THEN @ \cup Range(V2Tables)
                                   ELSE @,
                        !.pc = "record"]
    /\ UNCHANGED <<served_vars, bfs, wire, collector>>

\* The version is recorded and the run returns Ok.
MigRecord ==
    /\ db.pc = "record"
    /\ db' = [db EXCEPT !.rows = RecordVersion(db.rows, db.version),
                        !.pc = "done", !.result = "ok"]
    /\ UNCHANGED <<served_vars, bfs, wire, collector>>

\* A statement returns an error, which `?` hands to the caller: the run is
\* over and the database keeps what the earlier statements did.
MigError ==
    /\ db.pc \notin {"none", "closed", "done", "select"}
    /\ db' = [db EXCEPT !.pc = "done", !.result = "err"]
    /\ UNCHANGED <<served_vars, bfs, wire, collector>>

(***************************************************************************)
(* The collectors (cronos-collect-appmon, cronos-collect-fs): main's       *)
(* reconnection loop around run_session.  The daemon is whatever peer      *)
(* answers: collector.trace keeps, for the connection that is open, the    *)
(* frames written and read in order.                                       *)
(***************************************************************************)
CollectorKinds == {"appmon", "fs"}

\* What read_frame can hand back: a frame of some kind, or an error.
ReplyKinds == {"ack", "error", "status"}

Sent(kind) == [dir |-> "sent", kind |-> kind]
Received(kind) == [dir |-> "received", kind |-> kind]

\* The match on the handshake's answer without its bail! arms.
AfterHandshake_AnyReply(r) == "recv"

\* The match on the handshake's answer: Ack goes on to the event loop, an
\* Error or anything else ends the session with an error.
AfterHandshake(r) == IF r = "ack" THEN "recv" ELSE "sleep"

\* Events one item of the channel is sent as: one for the app monitor; for
\* the filesystem collector one per path, none when map_event_kind gives
\* None.
PathsOf(kind) == IF kind = "appmon" THEN {1} ELSE 0..MaxPaths

\* main calls run_session, at start or after the 5 s sleep that follows a
\* session error; UnixStream::connect succeeds or fails.
SessionConnect ==
    /\ collector.pc \in {"start", "sleep"}
    /\ collector.calls < MaxConnects
    /\ \/ collector' = [collector EXCEPT !.pc = "handshake", !.calls = @ + 1,
                                         !.conns = @ + 1, !.todo = 0,
                                         !.trace = <<>>]
       \/ collector' = [collector EXCEPT !.pc = "sleep", !.calls = @ + 1,
                                         !.todo = 0, !.trace = <<>>]
    /\ UNCHANGED <<served_vars, bfs, wire, db>>

\* write_frame of the CollectorHandshake.
SessionHandshake ==
    /\ collector.pc = "handshake"
    /\ \/ collector' = [collector EXCEPT !.pc = "await_handshake",
                                         !.trace = Append(@, Sent("handshake"))]
       \/ collector' = [collector EXCEPT !.pc = "sleep"]
    /\ UNCHANGED <<served_vars, bfs, wire, db>>

\* read_frame of the handshake's answer, and the match on it.
SessionHandshakeReply ==
    /\ collector.pc = "await_handshake"
    /\ \/ \E r \in ReplyKinds :
            collector' = [collector EXCEPT !.pc = AfterHandshake(r),
                                           !.trace = Append(@, Received(r))]
       \/ collector' = [collector EXCEPT !.pc = "sleep"]
    /\ UNCHANGED <<served_vars, bfs, wire, db>>

\* rx.recv(): the next item of the channel, or the channel closed, which
\* ends the session with Ok and main's loop with it.
SessionRecv ==
    /\ collector.pc = "recv"
    /\ \/ /\ collector.events < MaxEvents
          /\ \E n \in PathsOf(collector.kind) :
                collector' = [collector EXCEPT !.events = @ + 1, !.todo = n,
                                               !.pc = IF n > 0 THEN "emit"
                                                      ELSE "recv"]
       \/ collector' = [collector EXCEPT !.pc = "ended"]
    /\ UNCHANGED <<served_vars, bfs, wire, db>>

\* write_frame of an EmitEvent.
SessionEmit ==
    /\ collector.pc = "emit"
    /\ \/ collector' = [collector EXCEPT !.pc = "await_ack",
                                         !.trace = Append(@, Sent("emit")),
                                         !.delivered =
                                            IF collector.item = NoItem THEN @
                                            ELSE @ \cup {collector.item}]
       \/ collector' = [collector EXCEPT !.pc = "sleep"]
    /\ UNCHANGED <<served_vars, bfs, wire, db>>

\* The collector is without a stream to the daemon after a failure: main is
\* in the sleep that follows a session error, until the next connect.
Disconnected == collector.pc = "sleep"

\* The producer (poll_loop, or the watcher's callback): tx.send of a new
\* item, whatever run_session is doing; it waits while the channel is full.
Produce ==
    /\ collector.pc \notin {"none", "ended"}
    /\ collector.produced < MaxEvents
    /\ Len(collector.channel) < ChannelCap
    /\ collector' = [collector EXCEPT
            !.produced = @ + 1,
            !.channel = Append(@, [id |-> collector.produced + 1,
                                   offline |-> Disconnected])]
    /\ UNCHANGED <<served_vars, bfs, wire, db>>

\* rx.recv() with an item waiting in the channel: the oldest one.
SessionRecvItem ==
    /\ collector.pc = "recv"
    /\ collector.channel # <<>>
    /\ \E n \in PathsOf(collector.kind) :
        collector' = [collector EXCEPT !.channel = Tail(@),
                                       !.item = Head(collector.channel),
                                       !.events = @ + 1, !.todo = n,
                                       !.pc = IF n > 0 THEN "emit" ELSE "recv"]
    /\ UNCHANGED <<served_vars, bfs, wire, db>>

\* read_frame of the answer to an EmitEvent: any frame will do (`_ack`).
SessionEmitReply ==
    /\ collector.pc = "await_ack"
    /\ \/ \E r \in ReplyKinds :
            collector' = [collector EXCEPT !.todo = @ - 1,
                                           !.pc = IF collector.todo > 1 THEN "emit"
                                                  ELSE "recv",
                                           !.trace = Append(@, Received(r))]
       \/ collector' = [collector EXCEPT !.pc = "sleep"]
    /\ UNCHANGED <<served_vars, bfs, wire, db>>

(***************************************************************************)
(* The daemon serving its connections.                                     *)
(***************************************************************************)
Next ==
    \E c \in Conns :
        \/ Accept(c)
        \/ ReadFrame(c, Bodies(ConcEvents), MaxFrames)
        \/ ReadMalformed(c, MaxFrames)
        \/ PeerClosed(c)
        \/ Continue(c)
        \/ WriteResponse(c)

Spec == Init /\ [][Next]_vars

\* The same daemon on the tokio runtime: a handler that can take its next step
\* (its locks are free, its response is ready) is eventually run.
Fairness ==
    \A c \in Conns : WF_vars(Continue(c)) /\ WF_vars(WriteResponse(c))

FairSpec == Init /\ [][Next]_vars /\ Fairness

(***************************************************************************)
(* The daemon serving one connection, whose peer sends any event.          *)
(***************************************************************************)
SeqNext ==
    \/ Accept(1)
    \/ ReadFrame(1, Bodies(Events), SeqFrames)
    \/ ReadMalformed(1, SeqFrames)
    \/ PeerClosed(1)
    \/ Continue(1)
    \/ WriteResponse(1)

SeqSpec == Init /\ [][SeqNext]_vars

(***************************************************************************)
(* The daemon serving one collector that reports the same file of the same *)
(* project again and again, each event under a new id.                     *)
(***************************************************************************)
ChainBodies ==
    {[kind |-> "emit_event",
      event |-> [id |-> frames + 1, timestamp |-> t, source |-> "filesystem",
                 subject |-> EntityRef("file", "a"),
                 context |-> <<EntityRef("project", "p")>>]] : t \in {0, DedupWindow}}
      \cup {[kind |-> "status"]}

ChainNext ==
    \/ Accept(1)
    \/ ReadFrame(1, ChainBodies, ChainLen)
    \/ EmitLockRepo(1)
    \/ EmitLockGraph(1)
    \/ LinkSubject(1)
    \/ LinkContext(1)
    \/ LinkInsertEvent(1)
    \/ EmitCount(1)
    \/ WriteResponse(1)

ChainSpec == Init /\ [][ChainNext]_vars

(***************************************************************************)
(* The daemon serving the application monitor, and the aggregator task.    *)
(***************************************************************************)
\* Timestamps of the monitor's events. The aggregator's range query starts at
\* a watermark of 0 or more, so it never returns an event from before 0.
AppTimestamps == {t \in Timestamps : t >= 0}

AppBodies ==
    {[kind |-> "emit_event",
      event |-> [id |-> frames + 1, timestamp |-> t, source |-> "app_monitor",
                 subject |-> EntityRef("app", a), context |-> <<>>]] :
        t \in AppTimestamps, a \in Apps}

AggNext ==
    \/ Accept(1)
    \/ ReadFrame(1, AppBodies, AggFrames)
    \/ EmitLockRepo(1)
    \/ EmitLockGraph(1)
    \/ LinkSubject(1)
    \/ LinkInsertEvent(1)
    \/ EmitCount(1)
    \/ WriteResponse(1)
    \/ \E now \in Nows : Aggregate(now)

AggSpec == Init /\ [][AggNext]_vars

(***************************************************************************)
(* The same daemon with the aggregator task running for ever: the loop of  *)
(* spawn_aggregator sleeps and runs again, and the wall clock passes every *)
(* stored timestamp.                                                       *)
(***************************************************************************)
\* Events of the monitor after the epoch (a session that ends at 0 leaves
\* the watermark at 0 and is written again by every run).
PeriodicBodies ==
    {m \in AppBodies : m.event.timestamp > 0}

PeriodicNext ==
    \/ Accept(1)
    \/ ReadFrame(1, PeriodicBodies, PeriodicFrames)
    \/ EmitLockRepo(1)
    \/ EmitLockGraph(1)
    \/ LinkSubject(1)
    \/ LinkInsertEvent(1)
    \/ EmitCount(1)
    \/ WriteResponse(1)
    \/ \E now \in Nows : AggregateRun(now)

\* The handler of an accepted request is run to its end, and the task's
\* loop comes to a run when the clock is past all timestamps.
PeriodicFairness ==
    /\ WF_vars(Continue(1))
    /\ WF_vars(WriteResponse(1))
    /\ WF_vars(AggregateRun(TsMax))

PeriodicSpec == Init /\ [][PeriodicNext]_vars /\ PeriodicFairness

(***************************************************************************)
(* The daemon serving two connections, with the history of the frames of   *)
(* each: requests answered at once, requests that take the locks in either *)
(* order, frames that are no message, peers that close.                    *)
(***************************************************************************)
OrderBodies ==
    {[kind |-> "heartbeat"],
     [kind |-> "query", query |-> [kind |-> "related", entity_id |-> 1, depth |-> 1]],
     [kind |-> "emit_event",
      event |-> [id |-> frames + 1, timestamp |-> 0, source |-> "filesystem",
                 subject |-> EntityRef("file", "a"),
                 context |-> <<EntityRef("project", "p")>>]]}

OrderInit ==
    /\ EngineInit
    /\ handshakes = <<>>
    /\ bfs = NoSearch
    /\ wire = NoTransfer
    /\ db = NoMigration
    /\ collector = NoCollector
    /\ io_log = [c \in Conns |-> NoFrames]
    /\ overflow_checks = FALSE

OrderNext ==
    \E c \in Conns :
        \/ Accept(c)
        \/ ReadFrame(c, OrderBodies, OrderFrames)
        \/ ReadMalformed(c, OrderFrames)
        \/ PeerClosed(c)
        \/ Continue(c)
        \/ WriteResponse(c)

OrderSpec == OrderInit /\ [][OrderNext]_vars

\* The same on the tokio runtime (see Fairness).
OrderFairSpec == OrderInit /\ [][OrderNext]_vars /\ Fairness

(***************************************************************************)
(* The daemon built with or without overflow checks, serving two           *)
(* collectors that report the same file at any timestamp.                  *)
(***************************************************************************)
PanicBodies ==
    {[kind |-> "emit_event",
      event |-> [id |-> frames + 1, timestamp |-> t, source |-> "filesystem",
                 subject |-> EntityRef("file", "a"), context |-> <<>>]] :
        t \in {TsMin, 0, TsMax}}
      \cup {[kind |-> "heartbeat"]}

PanicInit ==
    /\ EngineInit
    /\ handshakes = <<>>
    /\ bfs = NoSearch
    /\ wire = NoTransfer
    /\ db = NoMigration
    /\ collector = NoCollector
    /\ io_log = <<>>
    /\ overflow_checks \in BOOLEAN

PanicNext ==
    \E c \in Conns :
        \/ Accept(c)
        \/ ReadFrame(c, PanicBodies, PanicFrames)
        \/ EmitLockRepo(c)
        \/ EmitLockGraph(c)
        \/ LinkSubject(c)
        \/ LinkInsertEvent(c)
        \/ EmitCount(c)
        \/ WriteResponse(c)

PanicSpec == PanicInit /\ [][PanicNext]_vars

(***************************************************************************)
(* The daemon serving one connection on which collectors of two names      *)
(* shake hands, report a file and list the collectors, with the history of *)
(* the handshakes.                                                         *)
(***************************************************************************)
CollBodies ==
    {[kind |-> "collector_handshake", name |-> n, source |-> s] :
        n \in CollectorNames, s \in Sources}
      \cup {[kind |-> "list_collectors"]}
      \cup {[kind |-> "emit_event",
              event |-> [id |-> frames + 1, timestamp |-> 0, source |-> "filesystem",
                         subject |-> EntityRef("file", "a"), context |-> <<>>]]}

CollInit ==
    /\ EngineInit
    /\ bfs = NoSearch
    /\ wire = NoTransfer
    /\ db = NoMigration
    /\ collector = NoCollector
    /\ io_log = <<>>
    /\ overflow_checks = FALSE
    /\ handshakes = [n \in CollectorNames |-> <<>>]

CollNext ==
    \/ Accept(1)
    \/ ReadFrame(1, CollBodies, CollFrames)
    \/ EmitLockRepo(1)
    \/ EmitLockGraph(1)
    \/ LinkSubject(1)
    \/ LinkInsertEvent(1)
    \/ EmitCount(1)
    \/ WriteResponse(1)

CollSpec == CollInit /\ [][CollNext]_vars

(***************************************************************************)
(* One call of write_frame on a message of any length of payload, or of    *)
(* read_frame on a stream with any prefix and any number of bytes after it.*)
(***************************************************************************)
\* Lengths of payload: up to one more than the first length that the cast
\* brings back under MAX_FRAME_SIZE.
PayloadLens == 0..(Pow2(LenBits) + MaxFrameSize + 1)

FrameInit ==
    /\ EngineInit
    /\ handshakes = <<>>
    /\ bfs = NoSearch
    /\ db = NoMigration
    /\ collector = NoCollector
    /\ io_log = <<>>
    /\ overflow_checks = FALSE
    /\ \/ wire \in [op : {"write"}, pc : {"check"}, len : PayloadLens, prefix : {0},
                     moved : {0}, result : {"none"}]
       \/ wire \in [op : {"read"}, pc : {"prefix"}, len : 0..(MaxFrameSize + 1),
                     prefix : 0..(Pow2(LenBits) - 1), moved : {0}, result : {"none"}]

FrameNext ==
    \/ WriteCheck
    \/ WriteBytes
    \/ ReadPrefix
    \/ ReadPayload

FrameSpec == FrameInit /\ [][FrameNext]_vars

(***************************************************************************)
(* One call of ContextGraph::related on a graph of BfsNodes nodes and up   *)
(* to BfsEdges edges, from node 1 or from an id the graph does not have.   *)
(***************************************************************************)
BfsPairs == (1..BfsNodes) \X (1..BfsNodes)

PairRank(p) == (p[1] - 1) * BfsNodes + p[2]

\* The edges of a graph in the order they were added, one list for each
\* multiset of endpoints (self-loops and parallel edges included).
EdgeLists ==
    UNION {{[i \in 1..n |-> [edge_id |-> i, from |-> q[i][1], to |-> q[i][2]]] :
              q \in {r \in [1..n -> BfsPairs] :
                        \A i, j \in 1..n : i < j => PairRank(r[i]) <= PairRank(r[j])}} :
           n \in 0..BfsEdges}

BfsInit ==
    /\ EngineInit
    /\ handshakes = <<>>
    /\ wire = NoTransfer
    /\ db = NoMigration
    /\ collector = NoCollector
    /\ io_log = <<>>
    /\ overflow_checks = FALSE
    /\ bfs \in [edges : EdgeLists, start : {1, BfsNodes + 1}, depth : 0..MaxDepth,
                 pc : {"lookup"}, queue : {<<>>}, visited : {<<>>}, result : {{}}]

BfsNext ==
    \/ BfsLookup
    \/ BfsPop
    \/ BfsCollect

BfsSpec == BfsInit /\ [][BfsNext]_vars /\ WF_vars(BfsNext)

(***************************************************************************)
(* run_migrations on one database, run after run.  The database it is      *)
(* first run on is a new file, or one that a run at an earlier, at this or *)
(* at a later CURRENT_VERSION completed.                                   *)
(***************************************************************************)
MigDatabases ==
    {[tables |-> {}, rows |-> <<>>]}
    \cup {[tables |-> {"schema_version"} \cup Range(V1Tables), rows |-> <<1>>]}
    \cup {[tables |-> {"schema_version"} \cup Range(V1Tables) \cup Range(V2Tables),
           rows |-> <<v>>] : v \in CURRENT_VERSION..(CURRENT_VERSION + NewerVersions)}

MigInit ==
    /\ EngineInit
    /\ handshakes = <<>>
    /\ bfs = NoSearch
    /\ wire = NoTransfer
    /\ collector = NoCollector
    /\ io_log = <<>>
    /\ overflow_checks = FALSE
    /\ \E d \in MigDatabases :
        db = [NoMigration EXCEPT !.tables = d.tables, !.rows = d.rows,
                                 !.pc = "closed", !.before = d]

MigNext ==
    \/ MigStart
    \/ MigCreateVersionTable
    \/ MigSelectVersion
    \/ MigV1
    \/ MigV2
    \/ MigRecord
    \/ MigError

MigSpec == MigInit /\ [][MigNext]_vars

(***************************************************************************)
(* One collector process against a peer that answers as it likes.          *)
(***************************************************************************)
SessionInit ==
    /\ EngineInit
    /\ handshakes = <<>>
    /\ bfs = NoSearch
    /\ wire = NoTransfer
    /\ db = NoMigration
    /\ io_log = <<>>
    /\ overflow_checks = FALSE
    /\ \E k \in CollectorKinds :
        collector = [NoCollector EXCEPT !.kind = k, !.pc = "start"]

SessionNext ==
    \/ SessionConnect
    \/ SessionHandshake
    \/ SessionHandshakeReply
    \/ SessionRecv
    \/ SessionEmit
    \/ SessionEmitReply

SessionSpec == SessionInit /\ [][SessionNext]_vars

(***************************************************************************)
(* One collector process with its producer: the items run_session sends    *)
(* are those the producer put in the channel.                              *)
(***************************************************************************)
ReconnectNext ==
    \/ SessionConnect
    \/ SessionHandshake
    \/ SessionHandshakeReply
    \/ Produce
    \/ SessionRecvItem
    \/ SessionEmit
    \/ SessionEmitReply

ReconnectSpec == SessionInit /\ [][ReconnectNext]_vars

(***************************************************************************)
(* The daemon serving one collector whose events pair a subject of any     *)
(* kind with a context of any kind.                                        *)
(***************************************************************************)
LinkBodies ==
    {[kind |-> "emit_event",
      event |-> [id |-> frames + 1, timestamp |-> 0, source |-> "filesystem",
                 subject |-> EntityRef(sk, "a"),
                 context |-> <<EntityRef(ck, "b")>>]] :
        sk \in EntityKinds, ck \in EntityKinds}

LinkNext ==
    \/ Accept(1)
    \/ ReadFrame(1, LinkBodies, LinkFrames)
    \/ EmitLockRepo(1)
    \/ EmitLockGraph(1)
    \/ LinkSubject(1)
    \/ LinkContext(1)
    \/ LinkInsertEvent(1)
    \/ EmitCount(1)
    \/ WriteResponse(1)

LinkSpec == Init /\ [][LinkNext]_vars

(***************************************************************************)
(* The daemon serving one connection on which collectors of two names and  *)
(* two sources shake hands and events of both sources arrive: kept or      *)
(* dropped by ingest, linked or failed by the linker.                      *)
(***************************************************************************)
CountBodies ==
    {[kind |-> "collector_handshake", name |-> n, source |-> s] :
        n \in CollectorNames, s \in Sources}
      \cup {[kind |-> "emit_event",
              event |-> [id |-> frames + 1, timestamp |-> 0, source |-> s,
                         subject |-> EntityRef("file", "a"), context |-> ctx]] :
                s \in Sources,
                ctx \in {<<>>, <<EntityRef("project", "p"), EntityRef("project", "p")>>}}

CountNext ==
    \/ Accept(1)
    \/ ReadFrame(1, CountBodies, CountFrames)
    \/ EmitLockRepo(1)
    \/ EmitLockGraph(1)
    \/ LinkSubject(1)
    \/ LinkContext(1)
    \/ LinkInsertEvent(1)
    \/ EmitCount(1)
    \/ WriteResponse(1)

CountSpec == Init /\ [][CountNext]_vars

(***************************************************************************)
(* build_sessions called on any list of resolved events that aggregate can *)
(* hand it: in timestamp order, no timestamp below 0.                      *)
(***************************************************************************)
ResolvedEvents ==
    [timestamp : AppTimestamps, app_name : Apps,
     window_title : {{}} \cup {{t} : t \in Titles}]

BuildInputs ==
    UNION {{q \in [1..n -> ResolvedEvents] :
                \A i \in 1..(n - 1) : q[i].timestamp <= q[i + 1].timestamp} :
           n \in 0..BuildLen}

\* A call of build_sessions, kept in agg with what it returned.
BuildCall ==
    /\ agg.runs = 0
    /\ \E evs \in BuildInputs :
          agg' = [agg EXCEPT !.runs = 1, !.input = evs, !.output = BuildSessions(evs)]
    /\ UNCHANGED <<sessions, daemon_vars, call_vars, io_log>>

BuildNext == BuildCall

BuildSpec == Init /\ [][BuildNext]_vars

(***************************************************************************)
(* The daemon serving one collector that reports one file at timestamps in *)
(* any order.                                                              *)
(***************************************************************************)
DedupBodies ==
    {[kind |-> "emit_event",
      event |-> [id |-> frames + 1, timestamp |-> t, source |-> "filesystem",
                 subject |-> EntityRef("file", "a"), context |-> <<>>]] :
        t \in Timestamps}

DedupNext ==
    \/ Accept(1)
    \/ ReadFrame(1, DedupBodies, DedupFrames)
    \/ EmitLockRepo(1)
    \/ EmitLockGraph(1)
    \/ LinkSubject(1)
    \/ LinkInsertEvent(1)
    \/ EmitCount(1)
    \/ WriteResponse(1)

DedupSpec == Init /\ [][DedupNext]_vars

(***************************************************************************)
(* The daemon serving a collector on connection 1, which shakes hands as   *)
(* "c1" and may close and connect again, and a client on connection 2 that *)
(* asks for the status and the collectors.                                 *)
(***************************************************************************)
CloseCollectorBodies ==
    {[kind |-> "collector_handshake", name |-> "c1", source |-> s] : s \in Sources}

CloseClientBodies == {[kind |-> "status"], [kind |-> "list_collectors"]}

CloseNext ==
    \/ Accept(1)
    \/ ReadFrame(1, CloseCollectorBodies, CloseFrames)
    \/ PeerClosed(1)
    \/ WriteResponse(1)
    \/ Accept(2)
    \/ ReadFrame(2, CloseClientBodies, CloseFrames)
    \/ WriteResponse(2)

CloseSpec == OrderInit /\ [][CloseNext]_vars

(***************************************************************************)
(* The daemon serving two peers that report the same file at timestamps    *)
(* less than the dedup window apart.                                       *)
(***************************************************************************)
RaceBodies ==
    {[kind |-> "emit_event",
      event |-> [id |-> frames + 1, timestamp |-> t, source |-> "filesystem",
                 subject |-> EntityRef("file", "a"), context |-> ctx]] :
        t \in {0, DedupWindow - 1},
        ctx \in {<<>>, <<EntityRef("project", "p")>>}}

RaceNext ==
    \E c \in Conns :
        \/ Accept(c)
        \/ ReadFrame(c, RaceBodies, RaceFrames)
        \/ EmitLockRepo(c)
        \/ EmitLockGraph(c)
        \/ LinkSubject(c)
        \/ LinkContext(c)
        \/ LinkInsertEvent(c)
        \/ EmitCount(c)
        \/ WriteResponse(c)

RaceSpec == Init /\ [][RaceNext]_vars

(***************************************************************************)
(* Properties.                                                             *)
(***************************************************************************)
\* A response is correlated with its request: same id, and the request_id
\* of an Ack or an Error is that id too.
ResponseEchoesId(c) ==
    /\ resp[c].id = req[c].id
    /\ resp[c].kind \in {"ack", "error"} => resp[c].request_id = req[c].id

\* C1: every message passed to handle_message yields exactly one response,
\* whose id (and request_id, for an Ack or an Error) is the request's id:
\* a response that is ready echoes the id, and every request that was read
\* comes to have its response ready.
C1_EveryRequestYieldsItsResponse ==
    /\ [](\A c \in Conns : pc[c] = "respond" => ResponseEchoesId(c))
    /\ \A c \in Conns : (req[c].kind # "none") ~> (pc[c] = "respond")

\* C2: a frame whose payload is no Message (malformed JSON, unknown variant)
\* is answered on its connection with Error{invalid_message}.
C2_MalformedFrameAnswered ==
    \A c \in Conns :
        pc[c] = "failed" => (resp[c].kind = "error" /\ resp[c].code = "invalid_message")

\* C3: a well-formed message of a kind the engine does not handle as a
\* request is answered with Error{bad_request} carrying the request's id.
C3_UnexpectedKindIsBadRequest ==
    \A c \in Conns :
        (pc[c] = "respond" /\ req[c].kind \notin RequestKinds)
            => resp[c] = [id |-> req[c].id, kind |-> "error",
                          request_id |-> req[c].id, code |-> "bad_request"]

\* C3 witness: a TrackingStatus message has been answered with bad_request.
C3_Witness ==
    \E c \in Conns :
        /\ pc[c] = "respond"
        /\ req[c].kind = "tracking_status"
        /\ resp[c].kind = "error"
        /\ resp[c].code = "bad_request"

\* A handler that holds one of the two locks and waits for the other.
HoldsRepoWaitsGraph(c) == c \in repo_lock /\ pc[c] = "emit_lock_graph"

HoldsGraphWaitsRepo(c) == c \in graph_lock /\ pc[c] = "related_lock_repo"

\* C4: the repository lock is always taken before the graph lock, so no
\* interleaving of requests deadlocks: never does one handler hold the
\* repository and wait for the graph while another holds the graph and waits
\* for the repository.
C4_RepoBeforeGraphNoDeadlock ==
    \A c, d \in Conns : ~(HoldsRepoWaitsGraph(c) /\ HoldsGraphWaitsRepo(d))

\* C5: the linker call of an EmitEvent is atomic for every other request: no
\* other handler reads the repository or the graph while an event is resolved
\* in part, and a handler in the middle of link holds both locks.
C5_NoHalfResolvedEventObserved ==
    /\ seen_half = FALSE
    /\ \A c \in Conns : MidLink(c) => (repo_lock = {c} /\ graph_lock = {c})

\* C5 witness: a Status read after an EmitEvent was answered before that
\* event was linked and stored (it saw none of its entities).
C5_Witness ==
    \E c, d \in Conns :
        /\ pc[c] = "respond" /\ req[c].kind = "emit_event" /\ loc[c].stored
        /\ pc[d] = "respond" /\ req[d].kind = "status"
        /\ req[d].id > req[c].id
        /\ resp[d].info.entity_count = 0

\* An EmitEvent with a non-empty identity whose key had an accepted event
\* before it, now answered.
SecondOfKeyAnswered(c) ==
    /\ pc[c] = "respond"
    /\ req[c].kind = "emit_event"
    /\ req[c].event.subject.identity # ""
    /\ loc[c].had_last

\* C6: of two EmitEvents with the same source and non-empty identity, handled
\* one after the other, the first accepted, the second is answered with Ack
\* and is persisted exactly when the two timestamps differ by dedup_window_ms
\* or more.
C6_SecondAckedAndKeptByDifference ==
    \A c \in Conns :
        SecondOfKeyAnswered(c)
            => /\ resp[c].kind = "ack"
               /\ loc[c].stored <=>
                     (Abs(req[c].event.timestamp - loc[c].last_ts) >= DedupWindow)

\* The step in which connection c's handler reads an EmitEvent whose subject
\* identity is empty and handles it.
EmptyIdentityHandled(c) ==
    /\ pc[c] = "idle"
    /\ req'[c].kind = "emit_event"
    /\ req'[c].event.subject.identity = ""

\* C7: an EmitEvent with an empty subject.identity is answered with Ack and
\* leaves the repository, the graph, the dedup map and the collectors (their
\* events_sent counters) as they were.
C7_EmptyIdentityChangesNothing ==
    [][\A c \in Conns :
          EmptyIdentityHandled(c)
              => /\ pc'[c] = "respond"
                 /\ resp'[c] = [id |-> req'[c].id, kind |-> "ack",
                                request_id |-> req'[c].id]
                 /\ UNCHANGED <<repo_vars, graph_vars, dedup_cache, coll_vars>>]_vars

\* C7 witness: an empty-identity EmitEvent was answered with Ack by a daemon
\* that holds a persisted event and a registered collector of that source.
C7_Witness ==
    \E c \in Conns :
        /\ pc[c] = "respond"
        /\ req[c].kind = "emit_event"
        /\ req[c].event.subject.identity = ""
        /\ resp[c].kind = "ack"
        /\ (events # {} \/ collectors # <<>>)

\* C8: the repository holds at most one entity per (kind, name).
C8_OneEntityPerKindAndName ==
    \A e1, e2 \in entities :
        (e1.kind = e2.kind /\ e1.name = e2.name) => e1 = e2

\* C8 witness: two connections each had an EmitEvent about the same subject
\* persisted, and the repository holds one entity of that (kind, name).
C8_Witness ==
    \E c, d \in Conns :
        /\ c # d
        /\ pc[c] = "respond" /\ req[c].kind = "emit_event" /\ loc[c].stored
        /\ pc[d] = "respond" /\ req[d].kind = "emit_event" /\ loc[d].stored
        /\ req[c].event.subject = req[d].event.subject
        /\ Cardinality(EntityMatches(entities, req[c].event.subject.kind,
                                     req[c].event.subject.identity)) = 1

SameTriple(a, b) == a.from = b.from /\ a.to = b.to /\ a.relation = b.relation

\* C9: the repository and the graph each hold at most one edge per
\* (from, to, relation); every edge is in both, and an observation of a
\* triple already present reinforces its edge.
C9_OneEdgePerTriple ==
    /\ \A e1, e2 \in edges : SameTriple(e1, e2) => e1 = e2
    /\ \A g1, g2 \in graph_edges : SameTriple(g1, g2) => g1 = g2
    /\ {e.id : e \in edges} = DOMAIN reinforced
    /\ {g.edge_id : g \in graph_edges} = DOMAIN reinforced

\* C9 witness: a triple was observed again and its single edge reinforced.
C9_Witness ==
    \E e \in edges :
        /\ reinforced[e.id] >= 1
        /\ Cardinality(EdgeMatches(edges, e.from, e.to, e.relation)) = 1
        /\ Cardinality({g \in graph_edges : SameTriple(g, e)}) = 1

\* The f32 nearest to num/den, for num/den in [0.5, 1.0].
F32Nearest(num, den) == RoundHalfEven(num * F32One, den)

\* min(0.5 + 0.1*n, 1.0) as an f32.
IdealStrength(n) == IF n >= 5 THEN F32One ELSE F32Nearest(5 + n, 10)

\* The strength of an edge as the linker reads it back from the repository.
StrengthOf(e) == F64ToF32(e.strength)

\* C10 as stated: an edge reinforced n times has strength
\* min(0.5 + 0.1*n, 1.0).
C10_StrengthIsHalfPlusTenths ==
    \A e \in edges : StrengthOf(e) = IdealStrength(reinforced[e.id])

\* C10: an edge starts at 0.5 and each reinforcement makes it
\* min(strength + 0.1, 1.0) in f32 arithmetic; after n reinforcements the
\* strength is min(0.5 + 0.1*n, 1.0) exactly for n <= 1 and n >= 5 and at
\* most two f32 steps above it in between; it is always in [0.5, 1.0], is
\* the same in the graph, and once 1.0 it stays 1.0.
C10_StrengthNearHalfPlusTenths ==
    /\ [](\A e \in edges :
            LET n == reinforced[e.id]
                d == StrengthOf(e) - IdealStrength(n)
            IN  /\ d \in 0..2
                /\ (n <= 1 \/ n >= 5) => d = 0
                /\ StrengthOf(e) >= F32Half
                /\ StrengthOf(e) <= F32One
                /\ \A g \in graph_edges :
                      g.edge_id = e.id => g.strength = StrengthOf(e))
    /\ [][\A e \in edges :
             StrengthOf(e) = F32One
                 => \A f \in edges' : f.id = e.id => StrengthOf(f) = F32One]_vars

\* C10 witness: an edge reinforced six times stands at 1.0, and so it did
\* after five.
C10_Witness ==
    \E e \in edges : reinforced[e.id] = 6 /\ StrengthOf(e) = F32One

\* C11: the last_seen of an entity never decreases, whatever the timestamps
\* of the accepted events and their order.
C11_LastSeenNeverDecreases ==
    [][\A e \in entities : \A f \in entities' :
          f.id = e.id => f.last_seen >= e.last_seen]_vars

\* C12: the first_seen of an entity never changes after its first insert:
\* Repository::insert_entity on a known id keeps the stored first_seen,
\* whatever first_seen the entity passed in carries, and no step of the
\* daemon removes an entity or alters its first_seen.
C12_FirstSeenNeverChanges ==
    /\ [](\A e \in entities : \A t \in Timestamps :
            \A f \in InsertEntity(entities, [e EXCEPT !.first_seen = t, !.last_seen = t]) :
               f.id = e.id => f.first_seen = e.first_seen)
    /\ [][\A e \in entities : \E f \in entities' :
             f.id = e.id /\ f.first_seen = e.first_seen]_vars

\* C12 witness: an entity was resolved again by an event with another
\* timestamp (its last_seen moved, its first_seen did not).
C12_Witness ==
    \E e \in entities : e.last_seen # e.first_seen

\* C13: every entity has first_seen <= last_seen.
C13_FirstSeenAtMostLastSeen ==
    \A e \in entities : e.first_seen <= e.last_seen

\* C14: every edge has last_reinforced >= created_at.
C14_LastReinforcedAtLeastCreatedAt ==
    \A e \in edges : e.last_reinforced >= e.created_at

EntityIds(ents) == {e.id : e \in ents}

\* C15: every event row references a subject entity, and every
\* event_context row a context entity, that exists; and both were in the
\* repository before the step that wrote the row.
C15_EventReferencesExist ==
    /\ [](/\ \A ev \in events : ev.subject_id \in EntityIds(entities)
          /\ \A row \in event_context : row[2] \in EntityIds(entities))
    /\ [][/\ \A ev \in events' \ events : ev.subject_id \in EntityIds(entities)
          /\ \A row \in event_context' \ event_context :
                row[2] \in EntityIds(entities)]_vars

\* C15 witness: an event is persisted together with a context row.
C15_Witness ==
    \E ev \in events : \E row \in event_context :
        row[1] = ev.id /\ row[2] # ev.subject_id

\* C16: both endpoints of every repository edge are entity rows, and both
\* endpoints of every graph edge are graph nodes.
C16_EdgeEndpointsExist ==
    /\ \A e \in edges :
          e.from \in EntityIds(entities) /\ e.to \in EntityIds(entities)
    /\ \A g \in graph_edges : g.from \in graph_nodes /\ g.to \in graph_nodes

\* C16 witness: an edge is in the repository and in the graph.
C16_Witness ==
    \E e \in edges : \E g \in graph_edges : g.edge_id = e.id /\ e.from # e.to

\* A Status request of connection c has its response ready.
StatusAnswered(c) == pc[c] = "respond" /\ req[c].kind = "status"

\* C17: Status reports the repository's current numbers of entities, edges
\* and events; after one accepted EmitEvent with a subject and one distinct
\* context reference on an empty store they are 2, 1 and 1; and event_count
\* is the number of EmitEvents that passed ingest and were linked without
\* error.  (One connection: the store at the response is the store read.)
C17_StatusReportsCounts ==
    \A c \in Conns :
        StatusAnswered(c)
            => /\ resp[c].info.entity_count = Cardinality(entities)
               /\ resp[c].info.edge_count = Cardinality(edges)
               /\ resp[c].info.event_count = Cardinality(events)
               /\ (frames = 2 /\ linked = 1 /\ Cardinality(event_context) = 1)
                     => /\ resp[c].info.entity_count = 2
                        /\ resp[c].info.edge_count = 1
                        /\ resp[c].info.event_count = 1
               /\ resp[c].info.event_count = linked

\* C18: a run of the aggregator that follows another run with no event stored
\* in between, every stored event being no later than the earlier run's clock,
\* writes no session.
C18_SecondRunWritesNothing ==
    [][(/\ agg.runs >= 1
        /\ agg'.runs = agg.runs + 1
        /\ agg.seen = events
        /\ \A e \in events : e.timestamp <= agg.now)
       => sessions' = sessions]_vars

\* C19: over the runs of the aggregator and the events stored between them,
\* no app-monitor event is counted in more than one session.
C19_NoEventCountedTwice == \A id \in DOMAIN agg.counted : agg.counted[id] <= 1

\* The places of evs where a session starts: the first event, a change of
\* app, or a timestamp at least SessionGap after the event before.
SessionStarts(evs) ==
    {i \in 1..Len(evs) :
        \/ i = 1
        \/ evs[i].app_name # evs[i - 1].app_name
        \/ evs[i].timestamp - evs[i - 1].timestamp >= SessionGap}

\* The last place of the session that starts at place i of evs.
SessionLast(evs, i) ==
    CHOOSE j \in i..Len(evs) :
        /\ \A k \in (i + 1)..j : k \notin SessionStarts(evs)
        /\ (j = Len(evs) \/ j + 1 \in SessionStarts(evs))

C21_SessionsWellFormed ==
    \A s \in sessions :
        /\ s.start_time <= s.end_time
        /\ s.event_count >= 1
        /\ s.duration_secs >= 0
        /\ s.duration_secs * MsPerSec <= s.end_time - s.start_time
        /\ s.end_time - s.start_time < (s.duration_secs + 1) * MsPerSec

C21_Witness ==
    \E s \in sessions :
        /\ s.event_count >= 2
        /\ (s.end_time - s.start_time) % MsPerSec # 0

\* A connection whose EmitEvent is between its receipt and its answer.
EmitInProgress(c) ==
    pc[c] \in {"emit_lock_repo", "emit_lock_graph", "link_subject", "link_context",
               "emit_count"}

\* C22: whenever no EmitEvent is in progress, the graph in memory is the one
\* rebuild makes of the repository's entities and edges, with as many nodes
\* as entities and as many edges as edge rows.
C22_GraphIsRebuildOfRepository ==
    (\A c \in Conns : ~EmitInProgress(c)) =>
        LET g == Rebuild(entities, edges)
        IN  /\ graph_nodes = g.nodes
            /\ graph_edges = g.gedges
            /\ graph_nodes = {e.id : e \in entities}
            /\ Cardinality(graph_nodes) = Cardinality(entities)
            /\ Cardinality(graph_edges) = Cardinality(edges)
            /\ \A r \in edges : \E h \in graph_edges :
                   /\ h.edge_id = r.id
                   /\ h.from = r.from
                   /\ h.to = r.to
                   /\ h.strength = F64ToF32(r.strength)

C22_Witness ==
    /\ \A c \in Conns : ~EmitInProgress(c)
    /\ Cardinality(entities) >= 2
    /\ \E r \in edges : F64ToF32(r.strength) # F32Half

\* The edges of the graph searched, as a set.
BfsEdgeSet == {bfs.edges[i] : i \in 1..Len(bfs.edges)}

\* C23: related(start, depth) returns, on every graph, exactly the nodes other
\* than start at most depth undirected hops from start, nothing when depth is
\* 0 or start is not a node, and it always returns.
C23_RelatedIsHopNeighbourhood ==
    /\ [](bfs.pc = "done" =>
            /\ bfs.result = Related(1..BfsNodes, BfsEdgeSet, bfs.start, bfs.depth)
            /\ bfs.start \notin bfs.result
            /\ (bfs.depth = 0 \/ bfs.start \notin 1..BfsNodes) => bfs.result = {})
    /\ <>(bfs.pc = "done")

\* A search of depth 1 over a graph with a self-loop that returned one node
\* and left the third, two hops away, out.
C23_Witness ==
    /\ bfs.pc = "done"
    /\ bfs.depth = 1
    /\ Cardinality(bfs.result) = 1
    /\ \E i \in 1..Len(bfs.edges) : bfs.edges[i].from = bfs.edges[i].to
    /\ Within(BfsEdgeSet, {bfs.start}, 2) = 1..BfsNodes

\* C24: on a connection the responses written are, in order, the answers to
\* the requests read: the k-th response carries the id of the k-th request,
\* and a request is read only when every earlier one has its response
\* written, whatever the other connections do.
C24_ResponsesInRequestOrder ==
    \A c \in DOMAIN io_log :
        LET reads == io_log[c].reads
            writes == io_log[c].writes
        IN  /\ Len(writes) <= Len(reads)
            /\ Len(reads) <= Len(writes) + 1
            /\ \A k \in 1..Len(writes) : writes[k] = reads[k]
            /\ Len(reads) = Len(writes) + 1 <=> pc[c] \notin {"idle", "closed", "failed"}

\* A connection had two requests answered while the other connection had a
\* request of its own read in between.
C24_Witness ==
    \E c, d \in DOMAIN io_log :
        /\ c # d
        /\ Len(io_log[c].writes) = 2
        /\ \E k \in 1..Len(io_log[d].reads) :
              /\ io_log[c].writes[1] < io_log[d].reads[k]
              /\ io_log[d].reads[k] < io_log[c].writes[2]

\* A connection whose handler has a request it has not answered yet.
Busy(c) == pc[c] \notin {"idle", "closed", "failed", "respond"}

\* C25: an error on one connection ends only that connection's handler: the
\* connection's slot can be accepted again, and from then on every request
\* read on another connection still comes to have its response.
C25_FailureLeavesOthersServed ==
    \A c \in Conns : \A d \in Conns \ {c} :
        [](pc[c] = "failed" => (ENABLED Accept(c) /\ [](Busy(d) => <>(pc[d] = "respond"))))

\* C26: a panic in one connection's handler leaves the engine's locks usable:
\* while a connection's handler lies panicked, no handler of another
\* connection panics instead of answering its request.
C26_PanicLeavesLocksUsable ==
    [][\A c \in Conns : \A d \in Conns \ {c} :
          ~(pc[d] = "panicked" /\ pc[c] # "panicked" /\ pc'[c] = "panicked")]_vars

\* C27: read_frame fails with frame-too-large on a prefix above
\* MAX_FRAME_SIZE, having consumed the 4 prefix bytes only, and does not on
\* a prefix of exactly MAX_FRAME_SIZE; write_frame fails with frame-too-large
\* on a payload longer than MAX_FRAME_SIZE, having written nothing.
C27_FrameSizeLimit ==
    wire.pc = "done" =>
        /\ (wire.op = "read" /\ wire.prefix > MaxFrameSize) =>
               (wire.result = "too_large" /\ wire.moved = 4)
        /\ (wire.op = "read" /\ wire.prefix = MaxFrameSize) =>
               wire.result # "too_large"
        /\ (wire.op = "write" /\ wire.len > MaxFrameSize) =>
               (wire.result = "too_large" /\ wire.moved = 0)

\* The names that have shaken hands.
Shaken == {n \in DOMAIN handshakes : handshakes[n] # <<>>}

\* A ListCollectors request that has its response.
ListAnswered(c) == pc[c] = "respond" /\ req[c].kind = "list_collectors"

\* C28: after any handshakes, ListCollectors returns one entry for each name
\* that has shaken hands and no other, each connected and with the source of
\* the name's latest handshake; a handshake of a name leaves one entry for
\* the name, with events_sent 0, and the other entries as they were.
C28_OneEntryPerCollectorName ==
    /\ [](\A c \in Conns :
            ListAnswered(c) =>
               /\ resp[c].kind = "collector_list"
               /\ {e.name : e \in resp[c].collectors} = Shaken
               /\ Cardinality(resp[c].collectors) = Cardinality(Shaken)
               /\ \A e \in resp[c].collectors :
                     /\ e.connected
                     /\ e.source = handshakes[e.name][Len(handshakes[e.name])])
    /\ [][\A n \in DOMAIN handshakes :
             handshakes'[n] # handshakes[n] =>
                /\ DOMAIN collectors' = DOMAIN collectors \cup {n}
                /\ collectors'[n].events_sent = 0
                /\ \A o \in DOMAIN collectors \ {n} : collectors'[o] = collectors[o]]_vars

\* ListCollectors answered with the one entry of a name that shook hands
\* twice, from a different source the second time, after its first entry had
\* counted an event.
C28_Witness ==
    \E c \in Conns :
        /\ ListAnswered(c)
        /\ linked >= 1
        /\ \E e \in resp[c].collectors :
              /\ handshakes[e.name] = <<"filesystem", "browser">>
              /\ e.events_sent = 0


\* The version a database records: the highest row of schema_version, 0
\* when there is none.
RecordedVersion(rows) == UnwrapOrZero(SelectVersion(rows))

MigReturnedOk == db.pc = "done" /\ db.result = "ok"

Outstanding(t, n) ==
    Cardinality({i \in 1..n : t[i].dir = "sent"})
        - Cardinality({i \in 1..n : t[i].dir = "received"})

\* C30: on the connection a collector has open, the first frame written is
\* the CollectorHandshake and it is the only handshake; an EmitEvent is
\* written only after the handshake was answered, and answered with Ack;
\* at no moment is more than one written frame without its answer.  The
\* connection is any the collector opens, the first or one after a
\* reconnect.
C30_HandshakeThenOneAtATime ==
    LET t == collector.trace
    IN  /\ t # <<>> => t[1] = Sent("handshake")
        /\ \A i \in DOMAIN t : t[i] = Sent("handshake") => i = 1
        /\ \A i \in DOMAIN t :
                t[i] = Sent("emit") => (i > 2 /\ t[2] = Received("ack"))
        /\ \A n \in 0..Len(t) : Outstanding(t, n) \in {0, 1}
        /\ collector.pc \in {"emit", "await_ack", "recv"} => Len(t) >= 2

\* On its second connection a collector has shaken hands and written two
\* EmitEvents, the second one after the first was answered.
C30_Witness ==
    /\ collector.conns = 2
    /\ Len(collector.trace) >= 5
    /\ collector.trace[3] = Sent("emit")
    /\ collector.trace[5] = Sent("emit")

\* C31: no item the producer made while the collector was disconnected
\* after a failure is written to the daemon as an EmitEvent, on any later
\* connection.
C31_OfflineEventsNotDelivered ==
    \A it \in collector.delivered : ~it.offline

\* The inference table: the pairs that give belongs_to and contains.
BelongsToPairs ==
    {<<"file", "project">>, <<"commit", "repository">>, <<"branch", "repository">>,
     <<"url", "domain">>}

ContainsPairs == {<<"project", "repository">>}

TableRelation(sk, ck) ==
    IF <<sk, ck>> \in BelongsToPairs THEN "belongs_to"
    ELSE IF <<sk, ck>> \in ContainsPairs THEN "contains"
    ELSE "related_to"

\* The entity a reference resolves to in a repository.
EntityOf(ents, ref) ==
    CHOOSE e \in ents : e.kind = ref.kind /\ e.name = ref.identity

\* C32: each turn of the linker's loop writes one edge, from the entity the
\* event's subject resolves to, to the entity the context reference
\* resolves to, with the relation the inference table gives for the pair
\* of kinds; no other edge is added or changed.
C32_RelationFollowsTable ==
    [][\A c \in Conns :
        (pc[c] = "link_context" /\ edges' # edges) =>
            LET event == req[c].event
                ctx_ref == event.context[Len(loc[c].context_ids) + 1]
                from == EntityOf(entities', event.subject)
                to == EntityOf(entities', ctx_ref)
            IN  \E e \in edges' :
                    /\ e.from = from.id
                    /\ e.to = to.id
                    /\ e.relation = TableRelation(event.subject.kind, ctx_ref.kind)
                    /\ \A f \in edges' : f \notin edges => f = e
                    /\ \A f \in edges : f \in edges' \/ f.id = e.id]_vars

\* A project seen with a repository as context: the edge from the project
\* to the repository says contains.
C32_Witness ==
    \E e \in edges : \E p \in entities : \E q \in entities :
        /\ p.kind = "project" /\ q.kind = "repository"
        /\ e.from = p.id /\ e.to = q.id
        /\ e.relation = "contains"

\* The sum of events_sent over the collectors named in S.
RECURSIVE SumSent(_, _)
SumSent(colls, S) ==
    IF S = {} THEN 0
    ELSE LET n == CHOOSE n \in S : TRUE
         IN  colls[n].events_sent + SumSent(colls, S \ {n})

OfSource(colls, s) == {n \in DOMAIN colls : colls[n].source = s}

\* The event of connection c's request is in the events table with every
\* context row: ingest kept it and the linker returned Ok.
KeptAndLinked(c) ==
    /\ loc[c].kept
    /\ \E r \in events : r.id = req[c].event.id
    /\ \A i \in DOMAIN loc[c].context_ids :
            <<req[c].event.id, loc[c].context_ids[i]>> \in event_context

\* C33: a counter goes up only in the counting step of an EmitEvent that
\* ingest kept and the linker linked, by one, for one collector whose source
\* is the event's, the other collectors' entries staying as they are; such
\* a step counts the event whenever a collector of the source is known; a
\* counter changes otherwise only by a handshake setting it to 0; and for
\* each source the counters of its collectors add up to no more than the
\* events of that source in the events table.
C33_CountersFollowLinkedEvents ==
    /\ [](\A s \in Sources :
            SumSent(collectors, OfSource(collectors, s))
                <= Cardinality({r \in events : r.source = s}))
    /\ [][\A n \in DOMAIN collectors \cap DOMAIN collectors' :
            collectors'[n].events_sent # collectors[n].events_sent =>
                \/ /\ collectors'[n].events_sent = 0
                   /\ req'[1].kind = "collector_handshake"
                   /\ req'[1].name = n
                \/ \E c \in Conns :
                    /\ pc[c] = "emit_count"
                    /\ KeptAndLinked(c)
                    /\ collectors'[n].events_sent = collectors[n].events_sent + 1
                    /\ collectors[n].source = req[c].event.source
                    /\ \A o \in DOMAIN collectors \ {n} :
                            collectors'[o] = collectors[o]]_vars
    /\ [][\A c \in Conns :
            (pc[c] = "emit_count" /\ pc'[c] # "emit_count"
                /\ OfSource(collectors, req[c].event.source) # {}) =>
                    SumSent(collectors', DOMAIN collectors')
                        = SumSent(collectors, DOMAIN collectors) + 1]_vars

\* Two collectors of one source are known and an event of the source was
\* linked: it was counted for one of them only.
C33_Witness ==
    \E s \in Sources :
        /\ Cardinality(OfSource(collectors, s)) = 2
        /\ SumSent(collectors, OfSource(collectors, s)) = 1
        /\ frames = 3
        /\ pc[1] = "respond"
        /\ req[1].kind = "emit_event"
        /\ req[1].event.source = s

\* The places among i..j of evs whose event carries a title that no earlier
\* event of i..j carries.
FirstSeen(evs, i, j) ==
    {p \in i..j :
        /\ evs[p].window_title # {}
        /\ \A q \in i..(p - 1) : evs[q].window_title # evs[p].window_title}

\* The titles of the events i..j of evs, each once, in the order in which
\* they are first seen.
FirstSeenTitles(evs, i, j) ==
    LET P == FirstSeen(evs, i, j)
    IN  [k \in 1..Cardinality(P) |->
            LET p == CHOOSE p \in P : Cardinality({q \in P : q <= p}) = k
            IN  CHOOSE t \in evs[p].window_title : TRUE]

RECURSIVE SumCounts(_, _)
SumCounts(out, n) ==
    IF n = 0 THEN 0 ELSE out[n].event_count + SumCounts(out, n - 1)

\* C34: build_sessions cuts the events it is given, in their order, where
\* the app changes or the gap reaches session_gap_ms, and nowhere else:
\* there is one session per such run, in order, with the run's app (the
\* same for all its events), the timestamps of its first and last event,
\* its number of events and its titles, each once, in first-seen order; the
\* event counts add up to the number of events; three events of one app
\* whose gaps are below session_gap_ms give one session.
C34_SessionsPartitionEvents ==
    agg.runs = 1 =>
        LET evs == agg.input
            out == agg.output
            starts == SessionStarts(evs)
        IN  /\ Len(out) = Cardinality(starts)
            /\ \A i \in starts :
                  LET k == Cardinality({j \in starts : j <= i})
                      last == SessionLast(evs, i)
                  IN  /\ \A p \in i..last : evs[p].app_name = out[k].app_name
                      /\ \A p \in (i + 1)..last :
                            evs[p].timestamp - evs[p - 1].timestamp < SessionGap
                      /\ out[k].start_time = evs[i].timestamp
                      /\ out[k].end_time = evs[last].timestamp
                      /\ out[k].event_count = last - i + 1
                      /\ out[k].window_titles = FirstSeenTitles(evs, i, last)
            /\ SumCounts(out, Len(out)) = Len(evs)
            /\ (/\ Len(evs) = 3
                /\ evs[1].app_name = evs[2].app_name /\ evs[2].app_name = evs[3].app_name
                /\ evs[2].timestamp - evs[1].timestamp < SessionGap
                /\ evs[3].timestamp - evs[2].timestamp < SessionGap)
                  => /\ Len(out) = 1
                     /\ out[1].start_time = evs[1].timestamp
                     /\ out[1].end_time = evs[3].timestamp
                     /\ out[1].event_count = 3

\* Three events of one app close together, the third repeating the title of
\* the first: one session of three events and two titles.
C34_Witness ==
    /\ agg.runs = 1
    /\ Len(agg.input) = 3
    /\ Len(agg.output) = 1
    /\ agg.input[1].window_title = agg.input[3].window_title
    /\ agg.output[1].event_count = 3
    /\ Len(agg.output[1].window_titles) = 2

\* Two rows of the events table of one source and one subject.
SameKey(r1, r2) == r1.source = r2.source /\ r1.subject_id = r2.subject_id

\* r2 is the next row persisted after r1 for their key (event ids are given
\* in the order of arrival).
NextPersisted(r1, r2) ==
    /\ SameKey(r1, r2)
    /\ r1.id < r2.id
    /\ \A r3 \in events : SameKey(r1, r3) => ~(r1.id < r3.id /\ r3.id < r2.id)

EmitFailed(c) ==
    /\ pc[c] = "respond"
    /\ req[c].kind = "emit_event"
    /\ resp[c].kind = "error"
    /\ resp[c].code = "internal_error"

\* C36: an EmitEvent answered Error{internal_error} leaves the engine state
\* as it was before the request.  The request wrote no event row, the dedup
\* map holds for the event's key what it held before (nothing, when the key
\* was new), and a failed first request on an empty store leaves the store
\* and the graph empty.
C36_FailedEmitLeavesNoTrace ==
    \A c \in Conns :
        EmitFailed(c)
            => /\ ~loc[c].stored
               /\ IF loc[c].had_last
                  THEN dedup_cache[DedupKey(req[c].event)] = loc[c].last_ts
                  ELSE DedupKey(req[c].event) \notin DOMAIN dedup_cache
               /\ frames = 1
                    => /\ entities = {} /\ edges = {} /\ events = {}
                       /\ event_context = {}
                       /\ graph_nodes = {} /\ graph_edges = {}

\* The event row of id is in the events table, written by the monitor.
PersistedAppEvent(id) ==
    \E r \in events : r.id = id /\ r.source = "app_monitor"

\* The event of id was among the events of a session some run wrote.
Counted(id) == id \in DOMAIN agg.counted /\ agg.counted[id] >= 1

\* C37: with the aggregator running for ever, every persisted app-monitor
\* event is eventually counted in a session, and none is counted twice.
C37_EveryEventEventuallyCounted ==
    /\ \A id \in 1..(PeriodicFrames + 1) : PersistedAppEvent(id) ~> Counted(id)
    /\ [](\A id \in DOMAIN agg.counted : agg.counted[id] <= 1)

\* The fields of a session the claim compares.
SessionKey(s) ==
    [app_name |-> s.app_name, start_time |-> s.start_time, end_time |-> s.end_time,
     event_count |-> s.event_count]

\* The events of order as aggregate resolves them.
ResolvedOf(order) ==
    [i \in 1..Len(order) |->
        [timestamp |-> order[i].timestamp,
         app_name |-> AppNameOf(entities, order[i].subject_id),
         window_title |-> {}]]

\* The aggregator has run since the last event was stored, with a clock past
\* every stored timestamp, and over its runs every stored event was counted
\* exactly once.
AllCountedOnce ==
    /\ agg.runs >= 1
    /\ agg.seen = events
    /\ \A c \in Conns : ~EmitInProgress(c)
    /\ \A r \in events :
          /\ r.timestamp <= agg.now
          /\ r.id \in DOMAIN agg.counted
          /\ agg.counted[r.id] = 1

\* C38: the sessions written do not depend on when the aggregator ran.  Once
\* every stored event has been counted (exactly once), the sessions table
\* holds the sessions one run over all the events builds (same app,
\* start_time, end_time and event_count), and two same-app events next to
\* each other in time and less than session_gap_ms apart lie in one session.
C38_SessionsIndependentOfRuns ==
    AllCountedOnce =>
        \E order \in SortedSeqs(events) :
            LET evs == ResolvedOf(order)
                built == BuildSessions(evs)
            IN  /\ {SessionKey(s) : s \in sessions}
                      = {SessionKey(built[k]) : k \in 1..Len(built)}
                /\ Cardinality(sessions) = Len(built)
                /\ \A i \in 2..Len(evs) :
                      (/\ evs[i].app_name = evs[i - 1].app_name
                       /\ evs[i].timestamp - evs[i - 1].timestamp < SessionGap)
                        => \E s \in sessions :
                              /\ s.app_name = evs[i].app_name
                              /\ s.start_time <= evs[i - 1].timestamp
                              /\ evs[i].timestamp <= s.end_time

\* The collectors that have an open connection: "c1" while connection 1 is
\* open and has shaken hands since it was accepted.
OpenCollectors ==
    IF pc[1] \notin {"closed", "failed", "panicked"} /\ io_log[1].reads # <<>>
    THEN {"c1"} ELSE {}

\* C39: Status.connected_collectors and the connected flag of ListCollectors
\* reflect the collectors that have an open connection at the moment the
\* request is handled: a collector whose connection has closed is not
\* reported as connected.
C39_ConnectedMeansOpenConnection ==
    [][(pc[2] = "idle" /\ pc'[2] = "respond")
        => /\ req'[2].kind = "status"
                => resp'[2].info.connected_collectors = Cardinality(OpenCollectors)
           /\ req'[2].kind = "list_collectors"
                => \A e \in resp'[2].collectors :
                      e.connected <=> e.name \in OpenCollectors]_vars

\* C40: of the EmitEvents two connections send for one (source, subject
\* identity) at timestamps less than dedup_window_ms apart, exactly one is
\* persisted in every interleaving: at most one is ever past ingest or in
\* the events table, and once every request is answered exactly one row is
\* there.
C40_ExactlyOneOfConcurrentDuplicates ==
    /\ Cardinality(events) + Cardinality({c \in Conns : EmitInProgress(c) /\ ~loc[c].stored})
          <= 1
    /\ (frames >= 1 /\ \A c \in Conns : ~EmitInProgress(c)) => Cardinality(events) = 1

\* One connection's event is past ingest and not yet persisted while the
\* other connection's event has been dropped and acknowledged.
C40_Witness ==
    \E c \in Conns : \E d \in Conns \ {c} :
        /\ EmitInProgress(c)
        /\ events = {}
        /\ pc[d] = "respond"
        /\ req[d].kind = "emit_event"
        /\ resp[d].kind = "ack"
        /\ ~loc[d].kept
====
